---- MODULE Spec2Model ----
(***************************************************************************)
(* Model of the CIS537 replication notebooks.                              *)
(*                                                                         *)
(*   src/replication_nb.ipynb  the imaging notebook: patient-level         *)
(*                             train/test split, partition record files,   *)
(*                             loading loop                                *)
(*   src/unnamed/part_000      the tabular notebook (summary statistics)   *)
(*   src/unnamed/part_001      an earlier copy of the tabular notebook     *)
(*                                                                         *)
(* A notebook is a sequence of cells run top to bottom against one kernel; *)
(* every cell is one action, a loop that appends to kernel variables is    *)
(* one action per iteration.  A cell that raises leaves the assignments    *)
(* made before the exception in place, records the exception in `error',   *)
(* and the next cell can still be run.                                     *)
(***************************************************************************)
EXTENDS Integers, Sequences, FiniteSets, TLC

(***************************************************************************)
(* Bounds of the model.                                                    *)
(***************************************************************************)
\* Largest number of patient directories under data_path.
MaxPatients == 4

(***************************************************************************)
(* Program constants.                                                      *)
(***************************************************************************)
\* size=455 of np.random.choice, scaled: the notebook's 455 of 569 patients
\* (round(0.8 * 569) = 455) is 2 of 3 here (round(0.8 * 3) = 2).
TRAIN_SIZE == 2

\* A patient has an image of one side or of both (markdown 1.2).
ImageCounts == {1, 2}

\* Class column of controlcase.xlsx: 1 = case, 0 = control.
Classes == {0, 1}

(***************************************************************************)
(* Generic helpers.                                                        *)
(***************************************************************************)
Range(s) == {s[i] : i \in DOMAIN s}

\* Python's `x in s' for a list or a numpy array s.
In(x, s) == \E i \in DOMAIN s : s[i] = x

\* [e for e in s if Keep(e)]
RECURSIVE Filter(_, _)
Filter(s, keep) ==
    IF s = <<>> THEN <<>>
    ELSE (IF Head(s) \in keep THEN <<Head(s)>> ELSE <<>>) \o Filter(Tail(s), keep)

(***************************************************************************)
(* The data directory.  Patient directories are named by the patient's     *)
(* dummy id; int() turns the name into the id used by the label table.     *)
(***************************************************************************)
\* A name is the sequence of its characters.
DirNames == << <<"7">>, <<"1", "2">>, <<"1", "3">>, <<"1", "0", "4">>,
               <<"2", "0">>, <<"3", "1">> >>

Digits == <<"0", "1", "2", "3", "4", "5", "6", "7", "8", "9">>

DigitValue(ch) == (CHOOSE d \in DOMAIN Digits : Digits[d] = ch) - 1

\* int(text) for a text of decimal digits.
RECURSIVE IntOf(_)
IntOf(text) ==
    IF text = <<>> THEN 0
    ELSE 10 * IntOf(SubSeq(text, 1, Len(text) - 1)) + DigitValue(text[Len(text)])

\* str(n) for n >= 0.
RECURSIVE StrOf(_)
StrOf(n) ==
    IF n < 10 THEN <<Digits[n + 1]>>
    ELSE StrOf(n \div 10) \o <<Digits[(n % 10) + 1]>>

\* The orders in which the directory listing can return the first n patient
\* directories: one order and its reverse.
ListingOrders(n) ==
    { [i \in 1..n |-> DirNames[i]], [i \in 1..n |-> DirNames[n + 1 - i]] }

(***************************************************************************)
(* File names and re.search.  A file name is the sequence of its           *)
(* characters; both notebooks take the feature name from it with           *)
(*   re.search('(?<=B).+(?=\.nii\.gz)', name).group()                      *)
(* where B is '_norm_' (tabular) or '_' (imaging).                         *)
(***************************************************************************)
NiiGz == <<".", "n", "i", "i", ".", "g", "z">>

NormTag == <<"_", "n", "o", "r", "m", "_">>

\* The pattern p matches the text at position i.
MatchesAt(p, text, i) ==
    /\ i >= 1
    /\ i + Len(p) - 1 <= Len(text)
    /\ \A k \in DOMAIN p : text[i + k - 1] = p[k]

\* The match can start at s: B ends right before s, and '.nii.gz' starts
\* somewhere after s.
CanStartAt(before, text, s) ==
    /\ MatchesAt(before, text, s - Len(before))
    /\ \E e \in (s + 1)..Len(text) : MatchesAt(NiiGz, text, e)

\* The faulty variant: a name that does not match is left out.
SearchOrSkip(before, text) ==
    IF \E s \in 1..Len(text) : CanStartAt(before, text, s)
    THEN LET s == CHOOSE s \in 1..Len(text) :
                     /\ CanStartAt(before, text, s)
                     /\ \A q \in 1..(s - 1) : ~CanStartAt(before, text, q)
             e == CHOOSE e \in (s + 1)..Len(text) :
                     /\ MatchesAt(NiiGz, text, e)
                     /\ \A q \in (e + 1)..Len(text) : ~MatchesAt(NiiGz, text, q)
         IN  [error |-> "", value |-> <<SubSeq(text, s, e - 1)>>]
    ELSE [error |-> "", value |-> <<>>]

\* re.search('(?<=B).+(?=\.nii\.gz)', text).group(): the leftmost start, the
\* longest '.+' from there; AttributeError (None has no group) without a
\* match.  Returns the names found: one, or none with the error.
Search(before, text) ==
    IF \E s \in 1..Len(text) : CanStartAt(before, text, s)
    THEN LET s == CHOOSE s \in 1..Len(text) :
                     /\ CanStartAt(before, text, s)
                     /\ \A q \in 1..(s - 1) : ~CanStartAt(before, text, q)
             e == CHOOSE e \in (s + 1)..Len(text) :
                     /\ MatchesAt(NiiGz, text, e)
                     /\ \A q \in (e + 1)..Len(text) : ~MatchesAt(NiiGz, text, q)
         IN  [error |-> "", value |-> <<SubSeq(text, s, e - 1)>>]
    ELSE [error |-> "AttributeError", value |-> <<>>]

\* The characters of the names, in the order of their code points.
CodePoints == <<".", "0", "1", "2", "3", "4", "5", "6", "7", "8", "9",
                "B", "_", "a", "b", "c", "g", "i", "m", "n", "o", "p",
                "q", "r", "z">>

Ord(ch) == CHOOSE k \in DOMAIN CodePoints : CodePoints[k] = ch

\* s < t for two str.
RECURSIVE StrLess(_, _)
StrLess(s, t) ==
    IF t = <<>> THEN FALSE
    ELSE IF s = <<>> THEN TRUE
    ELSE IF Head(s) = Head(t) THEN StrLess(Tail(s), Tail(t))
    ELSE Ord(Head(s)) < Ord(Head(t))

\* The faulty variant: the list in the order of the directory listing.
SortedAsListed(s) == s

\* sorted(s) for a list of str: element k is the one with k - 1 elements
\* before it, equal elements counted by position.
Sorted(s) ==
    LET before(i, j) == StrLess(s[i], s[j]) \/ (s[i] = s[j] /\ i < j)
        rank(i) == 1 + Cardinality({j \in DOMAIN s : before(j, i)})
    IN  [k \in DOMAIN s |-> s[CHOOSE i \in DOMAIN s : rank(i) = k]]

(***************************************************************************)
(* Floating-point values and 2-D arrays.  A value is <<n, d>>: the         *)
(* rational n/d for d > 0 (in lowest terms), and for d = 0 a non-finite    *)
(* value: <<0, 0>> is nan, <<1, 0>> is inf, <<-1, 0>> is -inf.  The        *)
(* arithmetic is exact; rounding is not modelled.                          *)
(***************************************************************************)
FloatNaN == <<0, 0>>

PosInf == <<1, 0>>

NegInf == <<0 - 1, 0>>

Zero == <<0, 1>>

\* np.finfo(dtype).max, scaled to the values of the model (|data| <= 10).
FloatMax == 99

AbsInt(n) == IF n < 0 THEN 0 - n ELSE n

RECURSIVE Gcd(_, _)
Gcd(a, b) == IF b = 0 THEN a ELSE Gcd(b, a % b)

\* n/d for integers n and d > 0, in lowest terms.
Ratio(n, d) ==
    LET g == Gcd(AbsInt(n), d)
    IN  <<n \div g, d \div g>>

Sign(v) == IF v[1] > 0 THEN 1 ELSE IF v[1] < 0 THEN 0 - 1 ELSE 0

IsNaN(v) == v = FloatNaN

IsFinite(v) == v[2] # 0

\* a * b for finite a, b: the common factors are cancelled first, so that no
\* intermediate value is larger than the result's.
Times(a, b) ==
    LET g == Gcd(AbsInt(a[1]), b[2])
        h == Gcd(AbsInt(b[1]), a[2])
    IN  <<(a[1] \div g) * (b[1] \div h), (a[2] \div h) * (b[2] \div g)>>

\* a + b for finite a, b, over the least common denominator.
Plus(a, b) ==
    LET g == Gcd(a[2], b[2])
    IN  Ratio(a[1] * (b[2] \div g) + b[1] * (a[2] \div g), (a[2] \div g) * b[2])

\* a * b
Mul(a, b) ==
    IF IsNaN(a) \/ IsNaN(b) THEN FloatNaN
    ELSE IF IsFinite(a) /\ IsFinite(b) THEN Times(a, b)
    ELSE <<Sign(a) * Sign(b), 0>>          \* inf * 0 is nan

\* a + b
Add(a, b) ==
    IF IsFinite(a) /\ IsFinite(b) THEN Plus(a, b)
    ELSE IF IsNaN(a) \/ IsNaN(b) THEN FloatNaN
    ELSE IF IsFinite(b) \/ a = b THEN a
    ELSE IF IsFinite(a) THEN b
    ELSE FloatNaN                          \* inf + -inf

\* a / b; x / 0 is nan or an infinity
Div(a, b) ==
    IF IsNaN(a) \/ IsNaN(b) THEN FloatNaN
    ELSE IF ~IsFinite(b) THEN (IF IsFinite(a) THEN Zero ELSE FloatNaN)
    ELSE IF ~IsFinite(a) THEN <<Sign(a) * (IF b[1] < 0 THEN 0 - 1 ELSE 1), 0>>
    ELSE IF b[1] = 0 THEN <<Sign(a), 0>>
    ELSE Times(a, <<Sign(b) * b[2], AbsInt(b[1])>>)

\* np.abs
Abs(v) == <<AbsInt(v[1]), v[2]>>

\* a <= b as IEEE compares: false when either is nan
Leq(a, b) ==
    IF IsNaN(a) \/ IsNaN(b) THEN FALSE
    ELSE IF ~IsFinite(a) THEN a[1] < 0 \/ a = b
    ELSE IF ~IsFinite(b) THEN b[1] > 0
    ELSE a[1] * (b[2] \div Gcd(a[2], b[2])) <= b[1] * (a[2] \div Gcd(a[2], b[2]))

\* The faulty variant: the value is left as it is.
NanToNumKeep(v) == v

\* np.nan_to_num of one value: nan becomes 0, an infinity the largest finite
\* value of its sign.
NanToNum(v) ==
    IF IsNaN(v) THEN Zero
    ELSE IF v = PosInf THEN <<FloatMax, 1>>
    ELSE IF v = NegInf THEN <<0 - FloatMax, 1>>
    ELSE v

\* ndarray.max() of a non-empty set of values; nan if one of them is nan.
MaxOf(values) ==
    IF \E v \in values : IsNaN(v) THEN FloatNaN
    ELSE CHOOSE m \in values : \A v \in values : Leq(v, m)

\* A 2-D array is the sequence of its rows.
NumRows(m) == Len(m)

NumCols(m) == IF m = <<>> THEN 0 ELSE Len(m[1])

NanToNumArray(m) == [r \in DOMAIN m |-> [c \in DOMAIN m[r] |-> NanToNum(m[r][c])]]

\* np.multiply of two arrays of one shape.
Multiply(a, b) == [r \in DOMAIN a |-> [c \in DOMAIN a[r] |-> Mul(a[r][c], b[r][c])]]

\* np.zeros((rows, cols))
Zeros(rows, cols) == [r \in 1..rows |-> [c \in 1..cols |-> Zero]]

\* The values of a 2-D array.
ValuesOf(m) == {m[r][c] : r \in DOMAIN m, c \in 1..NumCols(m)}

(***************************************************************************)
(* numpy's legacy generator, as far as np.random.choice(replace=False)     *)
(* uses it.  The Mersenne Twister is replaced by a 6-bit linear            *)
(* congruential generator of full period; seeding, rk_interval's masked    *)
(* rejection sampling, shuffle and choice are numpy's.                     *)
(***************************************************************************)
\* np.random.seed(v): the state is a function of the seed alone.
SeedState(v) == (17 * v + 5) % 64

RngNext(s) == (37 * s + 11) % 64

\* rk_random: advance and return the top three bits.
RngOut(s) == s \div 8

\* Smallest 2^k - 1 that is >= max.
MaskFor(max) == IF max <= 1 THEN 1 ELSE IF max <= 3 THEN 3 ELSE 7

\* rk_interval(max, state): a value in 0..max; returns <<value, state>>.
RECURSIVE RkDraw(_, _, _)
RkDraw(max, mask, s) ==
    LET s1 == RngNext(s)
        v  == RngOut(s1) % (mask + 1)
    IN  IF v <= max THEN <<v, s1>> ELSE RkDraw(max, mask, s1)

RkInterval(max, s) == IF max = 0 THEN <<0, s>> ELSE RkDraw(max, MaskFor(max), s)

Swap(x, i, j) == [x EXCEPT ![i] = x[j], ![j] = x[i]]

\* shuffle: for i in reversed(range(1, n)): j = rk_interval(i); swap x[i], x[j]
\* (x is 1-based here, so positions i+1 and j+1).  Returns <<x, state>>.
RECURSIVE ShuffleFrom(_, _, _)
ShuffleFrom(x, i, s) ==
    IF i < 1 THEN <<x, s>>
    ELSE LET d == RkInterval(i, s)
         IN  ShuffleFrom(Swap(x, i + 1, d[1] + 1), i - 1, d[2])

\* permutation(n): shuffle(arange(n)).
Permutation(n, s) == ShuffleFrom([k \in 1..n |-> k - 1], n - 1, s)

\* np.random.choice(a, replace=False, size=size) from generator state s.
\* Raises ValueError for an empty a and for size > len(a).
Choice(a, size, s) ==
    IF Len(a) = 0 \/ size > Len(a)
    THEN [error |-> "ValueError", value |-> <<>>, state |-> s]
    ELSE LET p == Permutation(Len(a), s)
         IN  [error |-> "",
              value |-> [k \in 1..size |-> a[p[1][k] + 1]],
              state |-> p[2]]

(***************************************************************************)
(* State.                                                                  *)
(***************************************************************************)
VARIABLES
    \* the file system and the label table (inputs, never written)
    data_dirs,          \* patient directories of data_path, in listing order
    n_images,           \* directory name -> number of feature_masks directories
    volumes,            \* sample directory -> its mask and its feature files
    tree,               \* the image directories, in listing order, and the
                        \* directories each one holds
    controlcase,        \* controlcase.xlsx: DummyID -> Class
    \* the kernel of the imaging notebook
    pc,                 \* the next cell to run
    defined,            \* names of the kernel variables that are bound
    error,              \* exception raised by the cell run last, "" if none
    rng,                \* state of np.random
    patients_list,
    patient_id_to_case,
    training_patients,
    testing_patients,
    num_training_cases,
    num_testing_cases,
    train_file,         \* lines of data/training_patients.txt
    test_file,          \* lines of data/testing_patients.txt
    feature_masks,      \* the sample directories the loading loop iterates
    fm_done,            \* number of sample directories the loop is through with
    train_features,
    train_classes,
    test_features,
    test_classes,
    patient_features,   \* the dictionary the loop filled last
    dicts,              \* the dictionaries train_features and test_features
                        \* refer to, by the sample directory they are of
    split_runs,         \* how often the split cell completed (saturates at 2)
    ordered_feature_names,
    train_data,         \* [sample][channel][row][column]
    test_data,
    full_data,
    max_image,          \* [channel][row][column]
    max_val,
    within_done,        \* iterations of the within-sample loop that are done
    \* the tabular notebook: its file system ...
    sheets,             \* the sheet directories of data_path, in listing order
    feature_dirs,       \* the listings of the feature directories, in listing order
    \* ... and its kernel
    feature_names,
    files_done,         \* files of the reference directory the loop is through with
    sheets_done,        \* number of sheet directories the loop is through with
    mean_df,
    std_df,
    patient_ids,
    feature_vectors,
    classes,
    x,
    y,
    X_train,
    X_test,
    y_train,
    y_test,
    colnames,           \* the column names of the table of summary statistics
    data_df,            \* the table: its index, its columns and its rows
    stats_file,         \* lines of ../data/summary_stats.tsv
    elnet_coef,         \* elnet.coef_
    selected_coefs

fsVars == <<data_dirs, n_images, volumes, tree, controlcase>>
splitVars == <<rng, patients_list, patient_id_to_case, training_patients,
               testing_patients, split_runs>>
verifyVars == <<num_training_cases, num_testing_cases>>
fileVars == <<train_file, test_file>>
loadVars == <<feature_masks, fm_done, train_features, train_classes,
              test_features, test_classes, patient_features, dicts>>
cnnVars == <<ordered_feature_names, train_data, test_data, full_data,
             max_image, max_val, within_done>>
imgVars == <<splitVars, verifyVars, fileVars, loadVars, cnnVars>>
aggVars == <<sheets_done, mean_df, std_df, patient_ids, feature_vectors, classes>>
xyVars == <<x, y, X_train, X_test, y_train, y_test>>
catVars == <<feature_dirs, files_done>>
selVars == <<colnames, data_df, stats_file, elnet_coef, selected_coefs>>
tabVars == <<sheets, feature_names, catVars, aggVars, xyVars, selVars>>
vars == <<fsVars, pc, defined, error, imgVars, tabVars>>

(***************************************************************************)
(* The statistics tables of the tabular notebook.  A pandas data frame is  *)
(* its column names and its rows, a row's values in the order of the       *)
(* columns.                                                                *)
(***************************************************************************)
EmptyFrame == [cols |-> <<>>, rows |-> <<>>]

\* A data frame with an index: row i has the label index[i].
EmptyTable == [index |-> <<>>, cols |-> <<>>, rows |-> <<>>]

\* A missing value of a csv file.
NaN == 0 - 1

\* The canonical feature order: sorted(feature_names) of the discovery cell.
FeatureNames == << <<"a">>, <<"b">>, <<"c">> >>

FeatureIndex(f) == CHOOSE k \in DOMAIN FeatureNames : FeatureNames[k] = f

\* All arrangements of the elements of the sequence s.
Arrangements(s) ==
    { q \in [DOMAIN s -> Range(s)] : \A e \in Range(s) : \E i \in DOMAIN q : q[i] = e }

\* The statistic that row r of the `kind' table of sheet i holds for feature
\* f.  Sheet 1 holds the values 1, 2, 3 (mean) and 0.1, 0.2, 0.3 (std) in
\* its first row, in tenths.
StatValue(kind, i, r, f) ==
    1000 * (i - 1) + 100 * (r - 1) + (IF kind = "mean" THEN 10 ELSE 1) * FeatureIndex(f)

\* What the rows of a csv file can be: a row is complete ("ok") or has a
\* missing value ("nan").
RowShapes == {<<>>, <<"nan">>, <<"ok">>, <<"nan", "ok">>, <<"ok", "ok">>}

\* pd.read_csv of the `kind' table of sheet i, whose columns are in the
\* order cols and whose rows are as `shape' says; a row with a missing value
\* has it in its first column.
ReadCsv(kind, i, cols, shape) ==
    [cols |-> cols,
     rows |-> [r \in DOMAIN shape |->
                 [c \in DOMAIN cols |->
                     IF shape[r] = "nan" /\ c = 1 THEN NaN
                     ELSE StatValue(kind, i, r, cols[c])]]]

\* The tables a sheet directory can hold.
Frames(kind, i) ==
    { ReadCsv(kind, i, cols, shape) : cols \in Arrangements(FeatureNames), shape \in RowShapes }

\* df.dropna(): the rows without a missing value, in order.
RECURSIVE CompleteRows(_)
CompleteRows(rows) ==
    IF rows = <<>> THEN <<>>
    ELSE (IF \E c \in DOMAIN Head(rows) : Head(rows)[c] = NaN THEN <<>> ELSE <<Head(rows)>>)
            \o CompleteRows(Tail(rows))

DropNa(df) == [df EXCEPT !.rows = CompleteRows(df.rows)]

\* The faulty variant: the values are taken by position.
SelectByPosition(df, names) == [k \in DOMAIN names |-> df.rows[1][k]]

\* df.iloc[0,:][names].values.flatten(): the first row's values of the
\* columns `names', in the order of `names'.
Select(df, names) ==
    [k \in DOMAIN names |->
        df.rows[1][CHOOSE c \in DOMAIN df.cols : df.cols[c] = names[k]]]

(***************************************************************************)
(* The sample directories of the imaging data: a mask volume and the       *)
(* feature volumes, one .nii.gz file per feature (load loop, 208-224).     *)
(***************************************************************************)
\* Files of a feature directory: '<image>_<feature>.nii.gz' for the features
\* a, b and B, and one whose name has no '_'.
FileA == <<"p", "_", "a">> \o NiiGz

FileB == <<"p", "_", "b">> \o NiiGz

FileC == <<"p", "_", "B">> \o NiiGz

FileBad == <<"p", "b">> \o NiiGz

FeatureFiles == <<FileA, FileB, FileC, FileBad>>

FileIndex(name) == CHOOSE k \in DOMAIN FeatureFiles : FeatureFiles[k] = name

\* The value of the volume of file `name' of the i-th sample directory at
\* row r and column c, by the pattern of the values:
\*   "plain"      finite values in -5..5, and 4 (first sample) or -10
\*                (second sample) in row 1, column 2 of feature a
\*   "nonfinite"  as plain, but nan, inf, -inf and inf in the top left 2 x 2
\*                of feature a
\*   "zero"       as plain, but feature a is 0 everywhere
RawValue(pattern, i, name, r, c) ==
    LET f == FileIndex(name)
        plain == IF f = 1 /\ r = 1 /\ c = 2 /\ i = 1 THEN 4
                 ELSE IF f = 1 /\ r = 1 /\ c = 2 /\ i = 2 THEN 0 - 10
                 ELSE ((5 * i + 3 * f + 2 * r + 7 * c) % 11) - 5
    IN  IF pattern = "zero" /\ f = 1 THEN Zero
        ELSE IF pattern = "nonfinite" /\ f = 1 /\ r = 1 /\ c = 1 THEN FloatNaN
        ELSE IF pattern = "nonfinite" /\ f = 1 /\ r = 1 /\ c = 2 THEN PosInf
        ELSE IF pattern = "nonfinite" /\ f = 1 /\ r = 2 /\ c = 1 THEN NegInf
        ELSE IF pattern = "nonfinite" /\ f = 1 /\ r = 2 /\ c = 2 THEN PosInf
        ELSE <<plain, 1>>

\* The value of the mask: 1 everywhere ("ones"), or 0 where row + column is
\* even ("checker").
MaskValue(pattern, r, c) ==
    IF pattern = "checker" /\ (r + c) % 2 = 0 THEN Zero ELSE <<1, 1>>

\* The kind of a sample directory: the files of its feature directory in
\* listing order, the shape of its volumes, and the patterns of the values.
\* The regular kind has the files of features a and b, volumes of 3 x 2.
RegularKind ==
    [files |-> <<FileA, FileB>>, rows |-> 3, cols |-> 2, values |-> "plain", mask |-> "ones"]

\* The sample directories after the third are of the regular kind, or have
\* larger volumes under a mask with zeros, with finite values or not.
MoreSampleKinds ==
    { RegularKind,
      [files |-> <<FileB, FileA>>, rows |-> 4, cols |-> 3, values |-> "plain", mask |-> "checker"],
      [files |-> <<FileA, FileB>>, rows |-> 4, cols |-> 3, values |-> "nonfinite", mask |-> "checker"] }

\* What a sample directory can hold.
SampleKinds ==
    MoreSampleKinds \cup
    { [files |-> <<FileA, FileB>>, rows |-> 3, cols |-> 2, values |-> "zero", mask |-> "ones"],
      [files |-> <<FileA, FileB>>, rows |-> 1, cols |-> 3, values |-> "plain", mask |-> "ones"],
      [files |-> <<FileA, FileB>>, rows |-> 4, cols |-> 1, values |-> "plain", mask |-> "ones"],
      [files |-> <<FileA, FileB>>, rows |-> 2, cols |-> 2, values |-> "plain", mask |-> "ones"],
      [files |-> <<FileC, FileA, FileB>>, rows |-> 3, cols |-> 2, values |-> "plain", mask |-> "ones"],
      [files |-> <<FileA>>, rows |-> 3, cols |-> 2, values |-> "plain", mask |-> "checker"],
      [files |-> <<FileA, FileBad>>, rows |-> 3, cols |-> 2, values |-> "plain", mask |-> "ones"] }

\* The sample directory of kind `kind' that is the i-th in listing order.
SampleDir(kind, i) ==
    [mask  |-> [r \in 1..kind.rows |-> [c \in 1..kind.cols |-> MaskValue(kind.mask, r, c)]],
     files |-> [k \in DOMAIN kind.files |->
                  [name |-> kind.files[k],
                   data |-> [r \in 1..kind.rows |-> [c \in 1..kind.cols |->
                               RawValue(kind.values, i, kind.files[k], r, c)]]]]]

\* data_path.glob('*/*/feature_masks/'): the sample directories, patient by
\* patient in listing order.
RECURSIVE SampleDirs(_, _)
SampleDirs(dirs, images) ==
    IF dirs = <<>> THEN <<>>
    ELSE [k \in 1..images[Head(dirs)] |-> <<Head(dirs), k>>]
            \o SampleDirs(Tail(dirs), images)

\* Every sample directory of the patients `dirs' is of the regular kind.
RegularVolumes(dirs, images) ==
    LET ds == SampleDirs(dirs, images)
    IN  [s \in Range(ds) |-> SampleDir(RegularKind, CHOOSE i \in DOMAIN ds : ds[i] = s)]

(***************************************************************************)
(* The directories below the image directories (replication_nb.ipynb       *)
(* 39-67).  A directory is its name, the names of the directories it holds *)
(* and a token for what it holds, which no renaming changes.               *)
(***************************************************************************)
FeatureMasks == "feature_masks"

Child(name, files, holds) == [name |-> name, files |-> files, holds |-> holds]

\* The tree the notebook documents: every image directory holds one
\* directory feature_masks, with the features and the masks.
RenamedTree(dirs, images) ==
    LET ds == SampleDirs(dirs, images)
    IN  [k \in DOMAIN ds |->
            [patient |-> ds[k][1], image |-> ds[k][2],
             children |-> << Child(FeatureMasks, {"feature", "mask"}, <<k, FeatureMasks>>) >>]]

(***************************************************************************)
(* The feature directories of the tabular data (part_000 58-67): files     *)
(* '<image>_norm_<feature>.nii.gz'.                                        *)
(***************************************************************************)
TabFile(image, feature) == image \o NormTag \o feature \o NiiGz

\* The files a feature directory can hold, and the feature name each gives:
\* two images with a file of feature a, a name in upper case, a name that
\* another one starts with, and a file without '_norm_'.
CatalogFiles ==
    << TabFile(<<"p">>, <<"a">>), TabFile(<<"p">>, <<"b">>), TabFile(<<"q">>, <<"a">>),
       TabFile(<<"p">>, <<"B">>), TabFile(<<"p">>, <<"a", "b">>),
       <<"p", "_", "a">> \o NiiGz >>

CatalogNames == << <<"a">>, <<"b">>, <<"a">>, <<"B">>, <<"a", "b">>, <<>> >>

\* The listings of at most n files, no file twice.
Listings(n) ==
    UNION { { l \in [1..k -> Range(CatalogFiles)] :
                \A i, j \in 1..k : i # j => l[i] # l[j] } : k \in 0..n }

(***************************************************************************)
(* Initial state: a kernel in which no cell has run, over any data         *)
(* directory of at most MaxPatients patients.  Every patient has one or    *)
(* two sample directories; the label table may lack a patient.             *)
(***************************************************************************)
\* States of the generator before any np.random.seed (seeded from the OS).
EntropyStates == {3, 24, 46, 61}

\* 'patient_id,case_status\n': a line is the sequence of its characters, the
\* two column names of the header being one token each.
Header == <<"patient_id", ",", "case_status">>

\* Partial functions from the ids of `names' to a class.
LabelTables(names) ==
    UNION { [ {IntOf(nm) : nm \in have} -> Classes ] : have \in SUBSET names }

\* The kernel of the imaging notebook before its first cell.
InitImgKernel ==
    /\ error = ""
    /\ patients_list = <<>>
    /\ training_patients = <<>>
    /\ testing_patients = <<>>
    /\ num_training_cases = 0
    /\ num_testing_cases = 0
    /\ train_file = <<>>
    /\ test_file = <<>>
    /\ feature_masks = <<>>
    /\ fm_done = 0
    /\ train_features = <<>>
    /\ train_classes = <<>>
    /\ test_features = <<>>
    /\ test_classes = <<>>
    /\ patient_features = <<>>
    /\ dicts = <<>>
    /\ split_runs = 0
    /\ ordered_feature_names = <<>>
    /\ train_data = <<>>
    /\ test_data = <<>>
    /\ full_data = <<>>
    /\ max_image = <<>>
    /\ max_val = Zero
    /\ within_done = 0

\* The kernel of the tabular notebook before its aggregation cell.
InitTabKernel ==
    /\ sheets_done = 0
    /\ mean_df = EmptyFrame
    /\ std_df = EmptyFrame
    /\ patient_ids = <<>>
    /\ feature_vectors = <<>>
    /\ classes = <<>>
    /\ x = <<>>
    /\ y = <<>>
    /\ X_train = <<>>
    /\ X_test = <<>>
    /\ y_train = <<>>
    /\ y_test = <<>>
    /\ colnames = <<>>
    /\ data_df = EmptyTable
    /\ stats_file = <<>>
    /\ elnet_coef = <<>>
    /\ selected_coefs = <<>>

Init ==
    /\ \E n \in 0..MaxPatients :
          /\ data_dirs \in ListingOrders(n)
          /\ n_images \in [ {DirNames[i] : i \in 1..n} -> ImageCounts ]
          /\ controlcase \in LabelTables({DirNames[i] : i \in 1..n})
    /\ volumes = RegularVolumes(data_dirs, n_images)
    /\ tree = RenamedTree(data_dirs, n_images)
    /\ pc = "split"
    /\ defined = {}
    /\ rng \in EntropyStates
    /\ patient_id_to_case = <<>>
    /\ InitImgKernel
    /\ sheets = <<>>
    /\ feature_dirs = <<>>
    /\ feature_names = <<>>
    /\ files_done = 0
    /\ InitTabKernel

(***************************************************************************)
(* Cell 1.2: train/test split (replication_nb.ipynb 101-116).              *)
(***************************************************************************)
\* Faulty variants: the generator is not seeded; the testing patients are
\* not filtered.
SplitSeedKeep(r) == r

TestingOfAll(plist, train) == plist

\* np.random.seed(0): the generator state the choice starts from, whatever
\* the state r the kernel's generator was in.
SplitSeed(r) == SeedState(0)

\* The faulty variant: only the first patient that is not a training patient.
TestingOfFirst(plist, train) ==
    LET rest == Filter(plist, {p \in Range(plist) : ~In(p, train)})
    IN  IF rest = <<>> THEN <<>> ELSE <<Head(rest)>>

\* [patient for patient in patients_list if patient not in training_patients]
TestingOf(plist, train) == Filter(plist, {p \in Range(plist) : ~In(p, train)})

\* The faulty variant: the patients are drawn from the list with the cases
\* moved to its front.
SplitOutcomeCasesFirst(plist, table, r) ==
    LET cases == {p \in Range(plist) :
                    IntOf(p) \in DOMAIN table /\ table[IntOf(p)] = 1}
        c == Choice(Filter(plist, cases) \o Filter(plist, Range(plist) \ cases),
                    TRAIN_SIZE, SplitSeed(r))
    IN  [error |-> c.error, state |-> c.state,
         training |-> c.value, testing |-> TestingOf(plist, c.value)]

\* Lines 112-116 in a kernel whose generator is in state r, for the list of
\* patients plist and the label table `table': the exception, the state of
\* the generator afterwards, and the two lists.
SplitOutcome(plist, table, r) ==
    LET c == Choice(plist, TRAIN_SIZE, SplitSeed(r))
    IN  [error |-> c.error, state |-> c.state,
         training |-> c.value, testing |-> TestingOf(plist, c.value)]

RunSplit ==
    LET plist == data_dirs
        c == SplitOutcome(plist, controlcase, rng)
    IN  /\ patients_list' = plist
        /\ patient_id_to_case' = controlcase
        /\ rng' = c.state
        /\ error' = c.error
        /\ IF c.error = ""
           THEN /\ training_patients' = c.training
                /\ testing_patients' = c.testing
                /\ defined' = defined \cup {"patients_list", "patient_id_to_case",
                                            "training_patients", "testing_patients"}
                /\ split_runs' = IF split_runs < 2 THEN split_runs + 1 ELSE 2
           ELSE /\ UNCHANGED <<training_patients, testing_patients, split_runs>>
                /\ defined' = defined \cup {"patients_list", "patient_id_to_case"}

SplitCell ==
    /\ pc = "split"
    /\ RunSplit
    /\ pc' = "verify"
    /\ UNCHANGED <<fsVars, verifyVars, fileVars, loadVars, cnnVars, tabVars>>

\* The split cell run again, between any two later cells.
RerunSplitCell ==
    /\ pc \in {"verify", "write", "load", "stack", "seed", "done"}
    /\ RunSplit
    /\ UNCHANGED <<pc, fsVars, verifyVars, fileVars, loadVars, cnnVars, tabVars>>

(***************************************************************************)
(* Cell verifying the split (replication_nb.ipynb 137-146).                *)
(***************************************************************************)
\* The first position of s whose patient has no label, 0 if none.
FirstMissing(s, table) ==
    IF \E i \in DOMAIN s : IntOf(s[i]) \notin DOMAIN table
    THEN CHOOSE i \in DOMAIN s :
            /\ IntOf(s[i]) \notin DOMAIN table
            /\ \A j \in 1..(i - 1) : IntOf(s[j]) \in DOMAIN table
    ELSE 0

RECURSIVE SumSeq(_)
SumSeq(s) == IF s = <<>> THEN 0 ELSE Head(s) + SumSeq(Tail(s))

\* sum([patient_id_to_case[int(patient_id)] for patient_id in s])
CasesOfAll(s, table) == SumSeq([i \in DOMAIN s |-> 1])

CasesOf(s, table) == SumSeq([i \in DOMAIN s |-> table[IntOf(s[i])]])

VerifyCell ==
    LET trainOk == /\ "training_patients" \in defined
                   /\ FirstMissing(training_patients, patient_id_to_case) = 0
        testOk  == /\ trainOk
                   /\ FirstMissing(testing_patients, patient_id_to_case) = 0
    IN  /\ pc = "verify"
        /\ pc' = "write"
        /\ num_training_cases' =
              IF trainOk THEN CasesOf(training_patients, patient_id_to_case)
              ELSE num_training_cases
        /\ num_testing_cases' =
              IF testOk THEN CasesOf(testing_patients, patient_id_to_case)
              ELSE num_testing_cases
        /\ defined' = defined \cup (IF trainOk THEN {"num_training_cases"} ELSE {})
                              \cup (IF testOk THEN {"num_testing_cases"} ELSE {})
        \* the printed ratios divide by the partition sizes
        /\ error' = IF "training_patients" \notin defined THEN "NameError"
                    ELSE IF ~testOk THEN "KeyError"
                    ELSE IF Len(training_patients) = 0 \/ Len(testing_patients) = 0
                         THEN "ZeroDivisionError"
                    ELSE ""
        /\ UNCHANGED <<fsVars, splitVars, fileVars, loadVars, cnnVars, tabVars>>

(***************************************************************************)
(* Cell writing the partition record files (replication_nb.ipynb 157-167). *)
(***************************************************************************)
\* The faulty variant: the two fields of a row are swapped.
RowOfSwapped(patient_id, table) ==
    StrOf(table[IntOf(patient_id)]) \o <<",">> \o patient_id

\* f'{patient_id},{case_status}\n' with case_status = table[int(patient_id)]
RowOf(patient_id, table) ==
    patient_id \o <<",">> \o StrOf(table[IntOf(patient_id)])

\* The lines a with-block leaves in its file: the header, then the rows of
\* the patients before the first one that has no label.
RecordLines(ids, table) ==
    LET m == FirstMissing(ids, table)
        k == IF m = 0 THEN Len(ids) ELSE m - 1
    IN  <<Header>> \o [i \in 1..k |-> RowOf(ids[i], table)]

WriteCell ==
    /\ pc = "write"
    /\ pc' = "load"
    /\ IF "training_patients" \notin defined
       THEN \* the file is opened and the header written before the NameError
            /\ train_file' = <<Header>>
            /\ UNCHANGED test_file
            /\ error' = "NameError"
       ELSE IF FirstMissing(training_patients, patient_id_to_case) # 0
       THEN /\ train_file' = RecordLines(training_patients, patient_id_to_case)
            /\ UNCHANGED test_file
            /\ error' = "KeyError"
       ELSE /\ train_file' = RecordLines(training_patients, patient_id_to_case)
            /\ test_file' = RecordLines(testing_patients, patient_id_to_case)
            /\ error' = IF FirstMissing(testing_patients, patient_id_to_case) # 0
                        THEN "KeyError" ELSE ""
    /\ UNCHANGED <<fsVars, defined, splitVars, verifyVars, loadVars, cnnVars, tabVars>>

(***************************************************************************)
(* Cell 1.3.1: the loading loop (replication_nb.ipynb 193-237).  A sample  *)
(* directory is <<patient directory name, image number>>; the feature      *)
(* dictionary loaded from it is identified by the directory: the lists     *)
(* train_features and test_features hold the directories, `dicts' the      *)
(* dictionaries.                                                           *)
(***************************************************************************)
\* Lines 218-219: np.multiply(np.nan_to_num(data), mask).
MaskedFeatureMap(data, mask) == Multiply(NanToNumArray(data), mask)

\* Lines 214-224: the dictionary of the feature files `files' under `mask',
\* a later file replacing an earlier one of the same feature name.  A file
\* name without a match ends the loop with the files before it loaded.
LoadFeatures(files, mask) ==
    LET found(k) == Search(<<"_">>, files[k].name)
        bad  == {k \in DOMAIN files : found(k).error # ""}
        upto == IF bad = {} THEN Len(files)
                ELSE (CHOOSE k \in bad : \A q \in bad : k <= q) - 1
        keys == {found(k).value[1] : k \in 1..upto}
        last(nm) == CHOOSE k \in 1..upto :
                       /\ found(k).value[1] = nm
                       /\ \A q \in (k + 1)..upto : found(q).value[1] # nm
    IN  [error |-> IF bad = {} THEN "" ELSE "AttributeError",
         value |-> [nm \in keys |-> MaskedFeatureMap(files[last(nm)].data, mask)]]

\* The faulty variant: a patient without a label is a control.
LookupOrControl(table, id) ==
    [error |-> "", value |-> IF id \in DOMAIN table THEN table[id] ELSE 0]

\* patient_id_to_case[id]: a KeyError for an id that is no key.
Lookup(table, id) ==
    IF id \in DOMAIN table
    THEN [error |-> "", value |-> table[id]]
    ELSE [error |-> "KeyError", value |-> 0]

\* The faulty variant: the second image of a patient is a test sample.
CategoryByImage(sample, training, testing) ==
    IF sample[2] = 2 THEN "test" ELSE "train"

\* Lines 227-237: the list a sample is appended to, or the exception.
Category(sample, training, testing) ==
    LET is_test  == In(sample[1], testing)
        is_train == In(sample[1], training)
    IN  IF is_test /\ is_train THEN "AssertionError"
        ELSE IF is_test THEN "test"
        ELSE IF is_train THEN "train"
        ELSE "ValueError"

LoadStart ==
    /\ pc = "load"
    /\ feature_masks' = SampleDirs(data_dirs, n_images)
    /\ fm_done' = 0
    /\ train_features' = <<>>
    /\ train_classes' = <<>>
    /\ test_features' = <<>>
    /\ test_classes' = <<>>
    /\ dicts' = <<>>
    /\ defined' = defined \cup {"train_features", "test_features"}
    /\ error' = ""
    /\ pc' = IF feature_masks' = <<>> THEN "stack" ELSE "loading"
    /\ UNCHANGED <<fsVars, splitVars, verifyVars, fileVars, patient_features,
                   cnnVars, tabVars>>

\* One iteration of `for feature_mask_path in feature_masks'.
LoadIter ==
    /\ pc = "loading"
    /\ LET sample == feature_masks[fm_done + 1]
           patient_id == sample[1]
           last == fm_done + 1 = Len(feature_masks)
           patient_class == Lookup(patient_id_to_case, IntOf(patient_id))
           features == LoadFeatures(volumes[sample].files, volumes[sample].mask)
           category == IF patient_class.error # "" THEN patient_class.error
                       ELSE IF features.error # "" THEN features.error
                       ELSE IF "training_patients" \notin defined THEN "NameError"
                       ELSE Category(sample, training_patients, testing_patients)
           added == [s \in DOMAIN dicts \cup {sample} |->
                        IF s = sample THEN features.value ELSE dicts[s]]
       IN  /\ patient_features' = IF patient_class.error # "" THEN patient_features
                                   ELSE features.value
           /\ IF category = "test"
              THEN /\ test_features' = Append(test_features, sample)
                   /\ test_classes' = Append(test_classes, patient_class.value)
                   /\ dicts' = added
                   /\ UNCHANGED <<train_features, train_classes>>
                   /\ fm_done' = fm_done + 1
                   /\ error' = ""
                   /\ pc' = IF last THEN "stack" ELSE "loading"
              ELSE IF category = "train"
              THEN /\ train_features' = Append(train_features, sample)
                   /\ train_classes' = Append(train_classes, patient_class.value)
                   /\ dicts' = added
                   /\ UNCHANGED <<test_features, test_classes>>
                   /\ fm_done' = fm_done + 1
                   /\ error' = ""
                   /\ pc' = IF last THEN "stack" ELSE "loading"
              ELSE \* the exception ends the loop and the cell
                   /\ error' = category
                   /\ pc' = "stack"
                   /\ UNCHANGED <<train_features, train_classes,
                                  test_features, test_classes, dicts, fm_done>>
    /\ UNCHANGED <<fsVars, defined, splitVars, verifyVars, fileVars, feature_masks,
                   cnnVars, tabVars>>

(***************************************************************************)
(* Cell setting the seeds for training (replication_nb.ipynb 364-369), run  *)
(* after the normalization or right after the loading loop.                *)
(***************************************************************************)
\* The faulty variant: the cell draws the partition again from its seed.
SeedCellResplit ==
    /\ pc \in {"stack", "seed"}
    /\ LET c == Choice(patients_list, TRAIN_SIZE, SeedState(1))
       IN  /\ rng' = c.state
           /\ training_patients' = c.value
           /\ testing_patients' = TestingOf(patients_list, c.value)
    /\ error' = ""
    /\ pc' = "done"
    /\ UNCHANGED <<fsVars, defined, patients_list, patient_id_to_case, split_runs,
                   verifyVars, fileVars, loadVars, cnnVars, tabVars>>

SeedCell ==
    /\ pc \in {"stack", "seed"}
    /\ rng' = SeedState(1)
    /\ error' = ""
    /\ pc' = "done"
    /\ UNCHANGED <<fsVars, defined, patients_list, patient_id_to_case,
                   training_patients, testing_patients, split_runs,
                   verifyVars, fileVars, loadVars, cnnVars, tabVars>>

Next ==
    \/ SplitCell
    \/ RerunSplitCell
    \/ VerifyCell
    \/ WriteCell
    \/ LoadStart
    \/ LoadIter
    \/ SeedCell

Spec == Init /\ [][Next]_vars

(***************************************************************************)
(* The tabular notebook (part_000; part_001 is the same without            *)
(* patient_ids).                                                           *)
(*                                                                         *)
(* Initial state: the kernel after the cells that load the labels and      *)
(* discover the feature names.  The data directory is one of               *)
(*   - up to MaxSheetPatients patients with one or two sheets each, whose  *)
(*     mean table has one row, complete or not;                            *)
(*   - one sheet, with any mean table and any std table.                   *)
(***************************************************************************)
\* Largest number of patients with sheets.
MaxSheetPatients == 3

\* The sheet directories of the patients `dirs': the k-th sheet (in listing
\* order) has an incomplete mean table iff k is in `bad'.
SheetsOf(dirs, images, bad) ==
    LET ds == SampleDirs(dirs, images)
    IN  [k \in DOMAIN ds |->
            [patient |-> ds[k][1],
             mean |-> ReadCsv("mean", k, FeatureNames, IF k \in bad THEN <<"nan">> ELSE <<"ok">>),
             std  |-> ReadCsv("std", k, FeatureNames, <<"ok">>)]]

InitManySheets ==
    \E n \in 0..MaxSheetPatients :
       LET dirs == [i \in 1..n |-> DirNames[i]]
       IN  /\ data_dirs = dirs
           /\ n_images \in [Range(dirs) -> ImageCounts]
           /\ controlcase \in LabelTables(Range(dirs))
           /\ \E bad \in SUBSET (1..Len(SampleDirs(dirs, n_images))) :
                 sheets = SheetsOf(dirs, n_images, bad)

InitOneSheet ==
    /\ data_dirs = <<DirNames[1]>>
    /\ n_images = [d \in {DirNames[1]} |-> 1]
    /\ controlcase \in LabelTables({DirNames[1]})
    /\ \E m \in Frames("mean", 1), sd \in Frames("std", 1) :
          sheets = <<[patient |-> DirNames[1], mean |-> m, std |-> sd]>>

InitTab ==
    /\ InitManySheets \/ InitOneSheet
    /\ volumes = RegularVolumes(data_dirs, n_images)
    /\ tree = RenamedTree(data_dirs, n_images)
    /\ feature_dirs = << [k \in DOMAIN FeatureNames |->
                            TabFile(<<"p">>, FeatureNames[Len(FeatureNames) + 1 - k])] >>
    /\ files_done = Len(FeatureNames)
    /\ pc = "aggregate"
    /\ defined = {"patient_id_to_case", "feature_names"}
    /\ rng = 0
    /\ InitImgKernel
    /\ patient_id_to_case = controlcase
    /\ feature_names = FeatureNames
    /\ InitTabKernel

(***************************************************************************)
(* Cell 5: aggregation into feature vectors (part_000 76-105).             *)
(***************************************************************************)
\* The faulty variant: a sheet with an empty table gets a vector of zeros.
FeatZeroFilled(mean, std, names) ==
    IF Len(mean.rows) = 0 \/ Len(std.rows) = 0
    THEN << [k \in 1..(2 * Len(names)) |-> 0] >>
    ELSE << Select(mean, names) \o Select(std, names) >>

\* The body of the loop after dropna: no vector (`continue') when a table
\* is empty, else np.concatenate of the mean values and the std values.
\* Returns the vectors to append: none or one.
Feat(mean, std, names) ==
    IF Len(mean.rows) = 0 \/ Len(std.rows) = 0
    THEN <<>>
    ELSE << Select(mean, names) \o Select(std, names) >>

AggregateStart ==
    /\ pc = "aggregate"
    /\ feature_vectors' = <<>>
    /\ classes' = <<>>
    /\ patient_ids' = <<>>
    /\ sheets_done' = 0
    /\ defined' = defined \cup {"feature_vectors", "classes", "patient_ids"}
    /\ error' = ""
    /\ pc' = IF sheets = <<>> THEN "combine" ELSE "aggregating"
    /\ UNCHANGED <<fsVars, imgVars, sheets, feature_names, catVars, mean_df, std_df,
                   xyVars, selVars>>

\* One iteration of `for sheet_path in data_path.glob('*/*/sheet/')'.
AggregateIter ==
    /\ pc = "aggregating"
    /\ LET sheet == sheets[sheets_done + 1]
           patient_id == IntOf(sheet.patient)
           last == sheets_done + 1 = Len(sheets)
           feat == Feat(DropNa(sheet.mean), DropNa(sheet.std), feature_names)
           label == Lookup(patient_id_to_case, patient_id)
       IN  /\ mean_df' = DropNa(sheet.mean)
           /\ std_df' = DropNa(sheet.std)
           /\ IF feat = <<>>
              THEN \* continue
                   /\ UNCHANGED <<patient_ids, feature_vectors, classes>>
                   /\ sheets_done' = sheets_done + 1
                   /\ error' = ""
                   /\ pc' = IF last THEN "combine" ELSE "aggregating"
              ELSE /\ patient_ids' = Append(patient_ids, patient_id)
                   /\ feature_vectors' = feature_vectors \o feat
                   /\ IF label.error = ""
                      THEN /\ classes' = Append(classes, label.value)
                           /\ sheets_done' = sheets_done + 1
                           /\ error' = ""
                           /\ pc' = IF last THEN "combine" ELSE "aggregating"
                      ELSE \* the exception ends the loop and the cell
                           /\ UNCHANGED <<classes, sheets_done>>
                           /\ error' = label.error
                           /\ pc' = "combine"
    /\ UNCHANGED <<fsVars, defined, imgVars, sheets, feature_names, catVars, xyVars,
                   selVars>>

(***************************************************************************)
(* Cell 6: the vectors as one array (part_000 114-118).                    *)
(***************************************************************************)
CombineCell ==
    /\ pc = "combine"
    /\ pc' = "table"
    /\ IF feature_vectors = <<>>
       THEN \* len(feature_vectors[0])
            /\ error' = "IndexError"
            /\ UNCHANGED <<x, y, defined>>
       ELSE /\ x' = feature_vectors
            /\ y' = classes
            /\ defined' = defined \cup {"x", "y"}
            /\ error' = ""
    /\ UNCHANGED <<fsVars, imgVars, sheets, feature_names, catVars, aggVars,
                   X_train, X_test, y_train, y_test, selVars>>

(***************************************************************************)
(* Cell 7: the table of summary statistics (part_000 127-129).             *)
(***************************************************************************)
MeanTag == <<"m", "e", "a", "n", "_">>

StdTag == <<"s", "t", "d", "_">>

\* The faulty variant: the mean and the std column of a feature side by side.
ColNamesInterleaved(names) ==
    [k \in 1..(2 * Len(names)) |->
        IF k % 2 = 1 THEN MeanTag \o names[(k + 1) \div 2] ELSE StdTag \o names[k \div 2]]

\* ['mean_' + name for name in names] + ['std_' + name for name in names]
ColNames(names) ==
    [k \in DOMAIN names |-> MeanTag \o names[k]] \o [k \in DOMAIN names |-> StdTag \o names[k]]

\* df.to_csv(path, sep='\t', index_label='patient_id'): a line is the
\* sequence of its fields, the index first.
ToCsv(df) ==
    << <<"patient_id">> \o df.cols >>
        \o [i \in DOMAIN df.rows |-> <<StrOf(df.index[i])>> \o df.rows[i]]

TableCell ==
    /\ pc = "table"
    /\ pc' = "tsplit"
    /\ colnames' = ColNames(feature_names)
    /\ IF "x" \notin defined
       THEN /\ error' = "NameError"
            /\ defined' = defined \cup {"colnames"}
            /\ UNCHANGED <<data_df, stats_file>>
       ELSE IF Len(patient_ids) # Len(x) \/ Len(colnames') # Len(x[1])
       THEN \* Shape of passed values
            /\ error' = "ValueError"
            /\ defined' = defined \cup {"colnames"}
            /\ UNCHANGED <<data_df, stats_file>>
       ELSE /\ data_df' = [index |-> patient_ids, cols |-> colnames', rows |-> x]
            /\ stats_file' = ToCsv(data_df')
            /\ defined' = defined \cup {"colnames", "data_df"}
            /\ error' = ""
    /\ UNCHANGED <<fsVars, imgVars, sheets, feature_names, catVars, aggVars, xyVars,
                   elnet_coef, selected_coefs>>

(***************************************************************************)
(* Cell 16: train_test_split(x, y, test_size=0.2, shuffle=False)           *)
(* (part_000 138-140); part_001 has no cell 7.                             *)
(***************************************************************************)
\* n_test = ceil(0.2 * n), n_train = n - n_test.
NumTrainOf(n) == n - ((n + 4) \div 5)

TrainTestSplitCell ==
    /\ pc \in {"table", "tsplit"}
    /\ pc' = "tdone"
    /\ IF "x" \notin defined
       THEN /\ error' = "NameError"
            /\ UNCHANGED <<X_train, X_test, y_train, y_test, defined>>
       ELSE IF Len(x) # Len(y)
       THEN \* inconsistent numbers of samples
            /\ error' = "ValueError"
            /\ UNCHANGED <<X_train, X_test, y_train, y_test, defined>>
       ELSE LET n_train == NumTrainOf(Len(x))
            IN  \/ /\ X_train' = SubSeq(x, 1, n_train)
                   /\ X_test' = SubSeq(x, n_train + 1, Len(x))
                   /\ y_train' = SubSeq(y, 1, n_train)
                   /\ y_test' = SubSeq(y, n_train + 1, Len(y))
                   /\ defined' = defined \cup {"X_train", "X_test", "y_train", "y_test"}
                   /\ error' = ""
                \/ \* scikit-learn from 0.21 on refuses an empty train set
                   /\ n_train = 0
                   /\ error' = "ValueError"
                   /\ UNCHANGED <<X_train, X_test, y_train, y_test, defined>>
    /\ UNCHANGED <<fsVars, imgVars, sheets, feature_names, catVars, aggVars, x, y,
                   selVars>>

NextTab ==
    \/ AggregateStart
    \/ AggregateIter
    \/ CombineCell
    \/ TableCell
    \/ TrainTestSplitCell

SpecTab == InitTab /\ [][NextTab]_vars

(***************************************************************************)
(* Either notebook, each against its own kernel.                           *)
(***************************************************************************)
SpecBoth == (Init \/ InitTab) /\ [][Next \/ NextTab]_vars

(***************************************************************************)
(* Feature selection by elastic net (part_000 314-328, 346-348; part_001   *)
(* 301-315, 333-335).  A coefficient is an integer, in units of 1e-10; the *)
(* fit is any vector of coefficients, one per column of X_train.           *)
(***************************************************************************)
\* 1e-9, the magnitude a selected coefficient exceeds.
CoefThreshold == 10

\* The coefficients a fit gives a column: zero, just not above the
\* threshold, above it with either sign.
CoefValues == {-11, 0, 10, 11}

\* np.abs(coef) > 1e-9
IsSelected(coef) == AbsInt(coef) > CoefThreshold

\* The positions (from 0, as enumerate counts) of the selected
\* coefficients, ascending.
SelectedPositions(coefs) ==
    Filter([k \in DOMAIN coefs |-> k - 1], {i \in 0..(Len(coefs) - 1) : IsSelected(coefs[i + 1])})

\* The faulty variant: the name next to the one of the column.
NameOfCoefShifted(i, names) == names[((i + 1) % Len(names)) + 1]

\* The two branches of the loop body: feature_names[i] for a position of
\* the first half, feature_names[i % len(feature_names)] beyond.
NameOfCoef(i, names) ==
    IF i < Len(names) THEN names[i + 1] ELSE names[(i % Len(names)) + 1]

\* a[:, mask]: the columns at the positions, of every row.
TakeColumns(a, positions) ==
    [r \in DOMAIN a |-> [j \in DOMAIN positions |-> a[r][positions[j] + 1]]]

ElnetCell ==
    /\ pc = "tdone"
    /\ pc' = "cut"
    /\ IF "X_train" \notin defined
       THEN /\ error' = "NameError"
            /\ UNCHANGED <<elnet_coef, selected_coefs, defined>>
       ELSE IF X_train = <<>>
       THEN \* fit refuses an array of no samples; elnet is bound, not fitted
            /\ error' = "ValueError"
            /\ defined' = defined \cup {"elnet"}
            /\ UNCHANGED <<elnet_coef, selected_coefs>>
       ELSE /\ elnet_coef' \in [DOMAIN X_train[1] -> CoefValues]
            /\ selected_coefs' =
                 LET positions == SelectedPositions(elnet_coef')
                 IN  [j \in DOMAIN positions |-> NameOfCoef(positions[j], feature_names)]
            /\ defined' = defined \cup {"elnet", "selected_coefs"}
            /\ error' = ""
    /\ UNCHANGED <<fsVars, imgVars, sheets, feature_names, catVars, aggVars, xyVars,
                   colnames, data_df, stats_file>>

CutDownCell ==
    /\ pc = "cut"
    /\ pc' = "selected"
    /\ IF "X_train" \notin defined \/ "elnet" \notin defined
       THEN /\ error' = "NameError"
            /\ UNCHANGED <<X_train, X_test>>
       ELSE IF elnet_coef = <<>>
       THEN \* elnet.coef_ of an estimator that is not fitted
            /\ error' = "AttributeError"
            /\ UNCHANGED <<X_train, X_test>>
       ELSE /\ X_train' = TakeColumns(X_train, SelectedPositions(elnet_coef))
            /\ X_test' = TakeColumns(X_test, SelectedPositions(elnet_coef))
            /\ error' = ""
    /\ UNCHANGED <<fsVars, defined, imgVars, sheets, feature_names, catVars, aggVars,
                   x, y, y_train, y_test, selVars>>

\* The kernel before the aggregation, over one to MaxSheetPatients patients
\* with one complete sheet each, every patient with a label.
InitSelect ==
    /\ \E n \in 1..MaxSheetPatients :
          LET dirs == [i \in 1..n |-> DirNames[i]]
          IN  /\ data_dirs = dirs
              /\ n_images = [d \in Range(dirs) |-> 1]
              /\ controlcase \in [{IntOf(d) : d \in Range(dirs)} -> Classes]
              /\ sheets = SheetsOf(dirs, n_images, {})
    /\ volumes = RegularVolumes(data_dirs, n_images)
    /\ tree = RenamedTree(data_dirs, n_images)
    /\ feature_dirs = << [k \in DOMAIN FeatureNames |->
                            TabFile(<<"p">>, FeatureNames[Len(FeatureNames) + 1 - k])] >>
    /\ files_done = Len(FeatureNames)
    /\ pc = "aggregate"
    /\ defined = {"patient_id_to_case", "feature_names"}
    /\ rng = 0
    /\ InitImgKernel
    /\ patient_id_to_case = controlcase
    /\ feature_names = FeatureNames
    /\ InitTabKernel

NextSelect ==
    \/ NextTab
    \/ ElnetCell
    \/ CutDownCell

SpecSelect == InitSelect /\ [][NextSelect]_vars

(***************************************************************************)
(* Cell 1.1: the renaming of the folders (replication_nb.ipynb 70-79).     *)
(*                                                                         *)
(* Initial state: one patient with up to MaxImageDirs image directories,   *)
(* each of which holds up to two directories: with the long name of an     *)
(* image or named feature_masks already; with a feature directory, with a  *)
(* mask directory only, or empty.  The cells after this one are not run;   *)
(* what they read is left empty.                                           *)
(***************************************************************************)
\* Largest number of image directories.
MaxImageDirs == 2

\* The directories an image directory can hold: name and subdirectories.
ChildKinds ==
    { <<"DPm1", {"feature", "mask"}>>, <<"DPm2", {"feature", "mask"}>>,
      <<"DPm2", {"mask"}>>,
      <<FeatureMasks, {"feature", "mask"}>>, <<FeatureMasks, {"mask"}>>,
      <<FeatureMasks, {}>> }

\* The listings of image directory i: none, one or two directories of
\* different names, in any order.
ChildrenLists(i) ==
    LET kinds == { Child(k[1], k[2], <<i, k[1]>>) : k \in ChildKinds }
    IN  {<<>>} \cup { <<a>> : a \in kinds }
               \cup { <<q[1], q[2]>> : q \in {p \in kinds \X kinds : p[1].name # p[2].name} }

\* The faulty variant: the renamed directory arrives empty.
RenameEmptied(children, old, new) ==
    IF old = new
    THEN [error |-> "", children |-> children]
    ELSE IF \E j \in DOMAIN children : children[j].name = new /\ children[j].files # {}
    THEN [error |-> "OSError", children |-> children]
    ELSE LET kept == Filter(children, {c \in Range(children) : c.name # new})
         IN  [error |-> "",
              children |-> [j \in DOMAIN kept |->
                              IF kept[j].name = old
                              THEN Child(new, {}, kept[j].holds)
                              ELSE kept[j]]]

\* Path.rename of a directory within its parent, as rename(2) does it:
\* nothing when the two names are the same, an OSError when the new name
\* is of a directory that is not empty, and an empty one is replaced.
Rename(children, old, new) ==
    IF old = new
    THEN [error |-> "", children |-> children]
    ELSE IF \E j \in DOMAIN children : children[j].name = new /\ children[j].files # {}
    THEN [error |-> "OSError", children |-> children]
    ELSE LET kept == Filter(children, {c \in Range(children) : c.name # new})
         IN  [error |-> "",
              children |-> [j \in DOMAIN kept |->
                              IF kept[j].name = old
                              THEN Child(new, kept[j].files, kept[j].holds)
                              ELSE kept[j]]]

\* The iterations of the loop over one image directory: glob lists the
\* names once, and yields a name when it holds a feature directory by the
\* time its turn comes.  An exception ends the loop.
RECURSIVE RenameListed(_, _)
RenameListed(children, names) ==
    IF names = <<>>
    THEN [error |-> "", children |-> children]
    ELSE IF \E j \in DOMAIN children :
                /\ children[j].name = Head(names)
                /\ "feature" \in children[j].files
    THEN LET r == Rename(children, Head(names), FeatureMasks)
         IN  IF r.error # "" THEN r ELSE RenameListed(r.children, Tail(names))
    ELSE RenameListed(children, Tail(names))

\* The loop from image directory i on.
RECURSIVE RenameFrom(_, _)
RenameFrom(t, i) ==
    IF i > Len(t)
    THEN [error |-> "", tree |-> t]
    ELSE LET listed == [j \in DOMAIN t[i].children |-> t[i].children[j].name]
             r == RenameListed(t[i].children, listed)
             after == [t EXCEPT ![i].children = r.children]
         IN  IF r.error # ""
             THEN [error |-> r.error, tree |-> after]
             ELSE RenameFrom(after, i + 1)

\* The cell, run a first and a second time.
RenameCell ==
    /\ pc \in {"rename", "rerename"}
    /\ pc' = IF pc = "rename" THEN "rerename" ELSE "renamed"
    /\ LET r == RenameFrom(tree, 1)
       IN  /\ tree' = r.tree
           /\ error' = r.error
    /\ UNCHANGED <<data_dirs, n_images, volumes, controlcase, defined, imgVars, tabVars>>

InitRename ==
    /\ data_dirs = <<>>
    /\ n_images = <<>>
    /\ volumes = <<>>
    /\ controlcase = <<>>
    /\ \E m \in 1..MaxImageDirs :
          \E lists \in [1..m -> UNION { ChildrenLists(i) : i \in 1..m }] :
             /\ \A i \in 1..m : lists[i] \in ChildrenLists(i)
             /\ tree = [i \in 1..m |->
                          [patient |-> DirNames[1], image |-> i, children |-> lists[i]]]
    /\ pc = "rename"
    /\ defined = {}
    /\ rng = 0
    /\ patient_id_to_case = <<>>
    /\ InitImgKernel
    /\ sheets = <<>>
    /\ feature_dirs = <<>>
    /\ feature_names = <<>>
    /\ files_done = 0
    /\ InitTabKernel

NextRename == RenameCell

SpecRename == InitRename /\ [][NextRename]_vars

(***************************************************************************)
(* The tensors of the imaging notebook: cells 1.3.1 to 1.3.3               *)
(* (replication_nb.ipynb 193-311), from the kernel the split, verification *)
(* and writing cells leave.                                                *)
(***************************************************************************)
\* Largest number of patients with images.
MaxCnnPatients == 3

\* The arrays are np.zeros((n, 34, 26, 29)): 34 rows, 26 columns and 29
\* channels, scaled to 3 rows, 2 columns and 2 channels.
CropRows == 3

CropCols == 2

NumChannels == 2

\* The faulty variant: nothing is added to the maxima.
EpsilonZero == Zero

\* epsilon = 1e-8, scaled to 1/10.
epsilon == <<1, 10>>

InitCnn ==
    /\ \E n \in 2..MaxCnnPatients :
          /\ data_dirs = [i \in 1..n |-> DirNames[i]]
          /\ n_images = [d \in {DirNames[i] : i \in 1..n} |-> 1]
          /\ controlcase = [id \in {IntOf(DirNames[i]) : i \in 1..n} |-> id % 2]
          /\ LET ds == SampleDirs(data_dirs, n_images)
             IN  \E kinds \in [DOMAIN ds -> SampleKinds] :
                    /\ \A i \in DOMAIN ds : i > 3 => kinds[i] \in MoreSampleKinds
                    /\ volumes = [s \in Range(ds) |->
                                    LET i == CHOOSE i \in DOMAIN ds : ds[i] = s
                                    IN  SampleDir(kinds[i], i)]
    /\ tree = RenamedTree(data_dirs, n_images)
    /\ LET c == Choice(data_dirs, TRAIN_SIZE, SplitSeed(0))
       IN  /\ patients_list = data_dirs
           /\ patient_id_to_case = controlcase
           /\ rng = c.state
           /\ training_patients = c.value
           /\ testing_patients = TestingOf(data_dirs, c.value)
           /\ num_training_cases = CasesOf(c.value, controlcase)
           /\ num_testing_cases = CasesOf(TestingOf(data_dirs, c.value), controlcase)
           /\ train_file = RecordLines(c.value, controlcase)
           /\ test_file = RecordLines(TestingOf(data_dirs, c.value), controlcase)
    /\ split_runs = 1
    /\ pc = "load"
    /\ defined = {"patients_list", "patient_id_to_case", "training_patients",
                  "testing_patients", "num_training_cases", "num_testing_cases"}
    /\ error = ""
    /\ feature_masks = <<>>
    /\ fm_done = 0
    /\ train_features = <<>>
    /\ train_classes = <<>>
    /\ test_features = <<>>
    /\ test_classes = <<>>
    /\ patient_features = <<>>
    /\ dicts = <<>>
    /\ ordered_feature_names = <<>>
    /\ train_data = <<>>
    /\ test_data = <<>>
    /\ full_data = <<>>
    /\ max_image = <<>>
    /\ max_val = Zero
    /\ within_done = 0
    /\ sheets = <<>>
    /\ feature_dirs = <<>>
    /\ feature_names = <<>>
    /\ files_done = 0
    /\ InitTabKernel

(***************************************************************************)
(* Cell 1.3.2: the 4-D arrays (replication_nb.ipynb 254-276).              *)
(***************************************************************************)
Min(a, b) == IF a <= b THEN a ELSE b

\* m[0:34, 0:26]
Crop(m) ==
    [r \in 1..Min(NumRows(m), CropRows) |->
        [c \in 1..Min(NumCols(m), CropCols) |-> m[r][c]]]

\* The array `src' can be assigned to a 34 x 26 slice: numpy broadcasts an
\* axis of length 1.
Broadcastable(src) ==
    /\ NumRows(src) \in {1, CropRows}
    /\ NumCols(src) \in {1, CropCols}

\* What the slice holds after the assignment of src.
Broadcast(src) ==
    [r \in 1..CropRows |-> [c \in 1..CropCols |->
        src[IF NumRows(src) = 1 THEN 1 ELSE r][IF NumCols(src) = 1 THEN 1 ELSE c]]]

\* list(d.keys()) in some order.
KeysOf(d) ==
    CHOOSE q \in [1..Cardinality(DOMAIN d) -> DOMAIN d] : Range(q) = DOMAIN d

\* The faulty variant: the order of the names is derived from each sample.
ChannelNamePerSample(names, sample_dict, k) ==
    IF k <= Cardinality(DOMAIN sample_dict) THEN Sorted(KeysOf(sample_dict))[k]
    ELSE names[k]

\* enumerate(ordered_feature_names): the name of channel k, for any sample.
ChannelName(names, sample_dict, k) == names[k]

\* Lines 267 and 272 for channel k of one sample: the exception, if any.
AssignError(names, sample_dict, k) ==
    IF ChannelName(names, sample_dict, k) \notin DOMAIN sample_dict THEN "KeyError"
    ELSE IF k > NumChannels THEN "IndexError"
    ELSE IF ~Broadcastable(Crop(sample_dict[ChannelName(names, sample_dict, k)]))
         THEN "ValueError"
    ELSE ""

\* The faulty variant: the samples are taken last to first.
FillReversed(samples, names) ==
    [error |-> "",
     value |-> [s \in DOMAIN samples |-> [k \in 1..NumChannels |->
                  IF k \in DOMAIN names
                  THEN Broadcast(Crop(dicts[samples[Len(samples) + 1 - s]][names[k]]))
                  ELSE Zeros(CropRows, CropCols)]]]

\* Lines 264-267 (269-272): the array np.zeros((n, 34, 26, 29)) after the
\* loop over the samples `samples' and the names `names', which the first
\* exception ends.
Fill(samples, names) ==
    LET errs == {e \in (DOMAIN samples) \X (DOMAIN names) :
                    AssignError(names, dicts[samples[e[1]]], e[2]) # ""}
        before(a, b) == a[1] < b[1] \/ (a[1] = b[1] /\ a[2] < b[2])
        first == CHOOSE e \in errs : \A o \in errs \ {e} : before(e, o)
        assigned(s, k) == k \in DOMAIN names /\ (errs = {} \/ before(<<s, k>>, first))
    IN  [error |-> IF errs = {} THEN ""
                   ELSE AssignError(names, dicts[samples[first[1]]], first[2]),
         value |-> [s \in DOMAIN samples |-> [k \in 1..NumChannels |->
                      IF assigned(s, k)
                      THEN Broadcast(Crop(dicts[samples[s]]
                                            [ChannelName(names, dicts[samples[s]], k)]))
                      ELSE Zeros(CropRows, CropCols)]]]

StackCell ==
    /\ pc = "stack"
    /\ pc' = "cross"
    /\ IF train_features = <<>>
       THEN \* train_features[0]
            /\ error' = "IndexError"
            /\ UNCHANGED <<ordered_feature_names, train_data, test_data, defined>>
       ELSE LET names == Sorted(KeysOf(dicts[train_features[1]]))
                train == Fill(train_features, names)
                test  == Fill(test_features, names)
            IN  /\ ordered_feature_names' = names
                /\ train_data' = train.value
                /\ test_data' = IF train.error = "" THEN test.value
                                ELSE [s \in DOMAIN test_features |->
                                        [k \in 1..NumChannels |-> Zeros(CropRows, CropCols)]]
                /\ error' = IF train.error # "" THEN train.error ELSE test.error
                /\ defined' = defined \cup {"ordered_feature_names", "train_data", "test_data"}
    /\ UNCHANGED <<fsVars, splitVars, verifyVars, fileVars, loadVars,
                   full_data, max_image, max_val, within_done, tabVars>>

(***************************************************************************)
(* Cell 1.3.3: normalization (replication_nb.ipynb 293-311).  The          *)
(* statements up to line 301 are one step, every iteration of the loop of  *)
(* lines 306-311 is one.                                                   *)
(***************************************************************************)
\* The faulty variant: one maximum per channel, over all positions.
MaxImagePerChannel(full) ==
    [k \in 1..NumChannels |-> [r \in 1..CropRows |-> [c \in 1..CropCols |->
        MaxOf({Abs(full[s][k][q][d]) :
                 s \in DOMAIN full, q \in 1..CropRows, d \in 1..CropCols})]]]

\* np.abs(full).max(axis=0): for every channel, row and column the largest
\* magnitude over the samples.
MaxImage(full) ==
    [k \in 1..NumChannels |-> [r \in 1..CropRows |-> [c \in 1..CropCols |->
        MaxOf({Abs(full[s][k][r][c]) : s \in DOMAIN full})]]]

\* The faulty variant: the data is not divided.
DivideImageNot(data, image) == data

\* np.divide(data, image + epsilon), the image broadcast over the samples.
DivideImage(data, image) ==
    [s \in DOMAIN data |-> [k \in 1..NumChannels |->
        [r \in 1..CropRows |-> [c \in 1..CropCols |->
            Div(data[s][k][r][c], Add(image[k][r][c], epsilon))]]]]

\* The faulty variant: the largest value, not the largest magnitude.
MaxValSigned(feature_map) == MaxOf(ValuesOf(feature_map))

\* np.abs(feature_map).max()
MaxVal(feature_map) == MaxOf({Abs(v) : v \in ValuesOf(feature_map)})

\* np.divide(feature_map, max_val + epsilon)
DivideMap(feature_map, divisor) ==
    [r \in DOMAIN feature_map |-> [c \in DOMAIN feature_map[r] |->
        Div(feature_map[r][c], Add(divisor, epsilon))]]

\* The faulty variant: every channel of the sample is written.
AssignChannelAll(data, s, k, feature_map) ==
    [data EXCEPT ![s] = [j \in 1..NumChannels |-> feature_map]]

\* data_source[sample_number, :, :, feature_number] = feature_map
AssignChannel(data, s, k, feature_map) == [data EXCEPT ![s][k] = feature_map]

\* Lines 293-301.
CrossPass ==
    /\ pc = "cross"
    /\ IF "train_data" \notin defined
       THEN /\ error' = "NameError"
            /\ pc' = "seed"
            /\ UNCHANGED <<train_data, test_data, full_data, max_image,
                           within_done, defined>>
       ELSE LET full == train_data \o test_data
            IN  /\ full_data' = full
                /\ max_image' = MaxImage(full)
                /\ train_data' = DivideImage(train_data, MaxImage(full))
                /\ test_data' = DivideImage(test_data, MaxImage(full))
                /\ within_done' = 0
                /\ defined' = defined \cup {"epsilon", "full_data", "max_image"}
                /\ error' = ""
                /\ pc' = "within"
    /\ UNCHANGED <<fsVars, splitVars, verifyVars, fileVars, loadVars,
                   ordered_feature_names, max_val, tabVars>>

\* The sample and the channel of the iteration after `done' iterations:
\* the samples of train_data, then those of test_data, the channels
\* range(29) of each.
WithinSample(done) == (done \div NumChannels) + 1

WithinChannel(done) == (done % NumChannels) + 1

\* One iteration of lines 308-311.
WithinIter ==
    /\ pc = "within"
    /\ LET s == WithinSample(within_done)
           k == WithinChannel(within_done)
           n == Len(train_data)
           last == within_done + 1 = (n + Len(test_data)) * NumChannels
           feature_map == IF s <= n THEN train_data[s][k] ELSE test_data[s - n][k]
           divided == DivideMap(feature_map, MaxVal(feature_map))
       IN  /\ max_val' = MaxVal(feature_map)
           /\ IF s <= n
              THEN /\ train_data' = AssignChannel(train_data, s, k, divided)
                   /\ UNCHANGED test_data
              ELSE /\ test_data' = AssignChannel(test_data, s - n, k, divided)
                   /\ UNCHANGED train_data
           /\ within_done' = within_done + 1
           /\ pc' = IF last THEN "seed" ELSE "within"
    /\ error' = ""
    /\ UNCHANGED <<fsVars, defined, splitVars, verifyVars, fileVars, loadVars,
                   ordered_feature_names, full_data, max_image, tabVars>>

NextCnn ==
    \/ LoadStart
    \/ LoadIter
    \/ StackCell
    \/ CrossPass
    \/ WithinIter

SpecCnn == InitCnn /\ [][NextCnn]_vars

(***************************************************************************)
(* The imaging notebook from its split cell to the cell that seeds the     *)
(* training, over a data directory of patients with one or two images of   *)
(* the regular kind each and a label for every patient.                    *)
(***************************************************************************)
InitNotebook ==
    /\ \E n \in 2..MaxCnnPatients :
          /\ data_dirs = [i \in 1..n |-> DirNames[i]]
          /\ n_images \in [ {DirNames[i] : i \in 1..n} -> ImageCounts ]
          /\ controlcase \in [ {IntOf(DirNames[i]) : i \in 1..n} -> Classes ]
    /\ volumes = RegularVolumes(data_dirs, n_images)
    /\ tree = RenamedTree(data_dirs, n_images)
    /\ pc = "split"
    /\ defined = {}
    /\ rng = CHOOSE r \in EntropyStates : TRUE
    /\ patient_id_to_case = <<>>
    /\ InitImgKernel
    /\ sheets = <<>>
    /\ feature_dirs = <<>>
    /\ feature_names = <<>>
    /\ files_done = 0
    /\ InitTabKernel

NextNotebook ==
    \/ Next
    \/ StackCell
    \/ CrossPass
    \/ WithinIter

SpecNotebook == InitNotebook /\ [][NextNotebook]_vars

(***************************************************************************)
(* Cell 4 of the tabular notebook: the feature names, from the file names  *)
(* of the first feature directory (part_000 58-67).                        *)
(***************************************************************************)
\* Largest number of files in the reference feature directory.
MaxFiles == 3

\* The data directory has no feature directory, or the reference directory
\* is any listing, alone or before a second feature directory.
InitCatalog ==
    /\ data_dirs = <<>>
    /\ n_images = <<>>
    /\ volumes = <<>>
    /\ tree = RenamedTree(data_dirs, n_images)
    /\ controlcase = <<>>
    /\ sheets = <<>>
    /\ \/ feature_dirs = <<>>
       \/ \E l \in Listings(MaxFiles) :
             feature_dirs \in {<<l>>, <<l, <<CatalogFiles[2]>> >>}
    /\ pc = "discover"
    /\ defined = {"patient_id_to_case"}
    /\ error = ""
    /\ rng = 0
    /\ InitImgKernel
    /\ patient_id_to_case = controlcase
    /\ feature_names = <<>>
    /\ files_done = 0
    /\ InitTabKernel

\* Lines 60-62, and line 67 when the directory has no file.
DiscoverStart ==
    /\ pc = "discover"
    /\ IF feature_dirs = <<>>
       THEN \* next() of an exhausted generator
            /\ error' = "StopIteration"
            /\ pc' = "aggregate"
            /\ UNCHANGED <<feature_names, files_done, defined>>
       ELSE /\ feature_names' = Sorted(<<>>)
            /\ files_done' = 0
            /\ defined' = defined \cup {"feature_path", "feature_names"}
            /\ error' = ""
            /\ pc' = IF feature_dirs[1] = <<>> THEN "aggregate" ELSE "discovering"
    /\ UNCHANGED <<fsVars, imgVars, sheets, feature_dirs, aggVars, xyVars, selVars>>

\* One iteration of `for filename in feature_path.glob('*.nii.gz')', and
\* line 67 after the last one.
DiscoverIter ==
    /\ pc = "discovering"
    /\ LET filename == feature_dirs[1][files_done + 1]
           last == files_done + 1 = Len(feature_dirs[1])
           feature_name == Search(NormTag, filename)
           appended == feature_names \o feature_name.value
       IN  IF feature_name.error # ""
           THEN \* the exception ends the loop and the cell
                /\ error' = feature_name.error
                /\ pc' = "aggregate"
                /\ UNCHANGED <<feature_names, files_done>>
           ELSE /\ feature_names' = IF last THEN Sorted(appended) ELSE appended
                /\ files_done' = files_done + 1
                /\ error' = ""
                /\ pc' = IF last THEN "aggregate" ELSE "discovering"
    /\ UNCHANGED <<fsVars, defined, imgVars, sheets, feature_dirs, aggVars, xyVars,
                   selVars>>

NextCatalog ==
    \/ DiscoverStart
    \/ DiscoverIter

SpecCatalog == InitCatalog /\ [][NextCatalog]_vars

(***************************************************************************)
(* Either loop that takes feature names from file names.                   *)
(***************************************************************************)
SpecNames == (InitCatalog \/ InitCnn) /\ [][NextCatalog \/ NextCnn]_vars

(***************************************************************************)
(*                              Properties                                 *)
(***************************************************************************)
Occurrences(e, s) == Cardinality({i \in DOMAIN s : s[i] = e})

\* The label table has every patient of the data directory.
AllLabelled == \A i \in DOMAIN data_dirs : IntOf(data_dirs[i]) \in DOMAIN controlcase

SplitDone == "training_patients" \in defined

\* C1: after the split cell, training_patients and testing_patients are
\* disjoint, neither holds a patient twice, and together they hold every
\* patient of patients_list exactly once, so that the sizes add up to the
\* size of the population.
SplitIsPartition ==
    SplitDone =>
        /\ \A i \in DOMAIN patients_list :
              Occurrences(patients_list[i], training_patients)
                + Occurrences(patients_list[i], testing_patients) = 1
        /\ Range(training_patients) \cup Range(testing_patients) = Range(patients_list)
        /\ Range(training_patients) \cap Range(testing_patients) = {}
        /\ Len(training_patients) + Len(testing_patients) = Len(patients_list)

\* A split with at least two patients on either side.
SplitIsPartitionWitness ==
    /\ SplitDone
    /\ Len(training_patients) >= 2
    /\ Len(testing_patients) >= 2

\* C2: every sample directory the loading loop is through with is in exactly
\* one of train_features and test_features, exactly once, and in the list of
\* its patient's partition: no patient has a sample in each list.  With a
\* split and a label for every patient the loop gets through every directory.
SamplesFollowPatient ==
    /\ \A i \in 1..fm_done :
          LET sample == feature_masks[i]
          IN  /\ Occurrences(sample, train_features)
                   + Occurrences(sample, test_features) = 1
              /\ In(sample, train_features) <=> In(sample[1], training_patients)
              /\ In(sample, test_features) <=> In(sample[1], testing_patients)
    /\ Len(train_features) + Len(test_features) = fm_done
    /\ \A i \in DOMAIN train_features, j \in DOMAIN test_features :
          train_features[i][1] # test_features[j][1]
    /\ (pc \in {"stack", "seed", "done"} /\ SplitDone /\ AllLabelled) =>
          fm_done = Len(feature_masks)

\* The loop is through with every directory; a patient with two images is in
\* the training data and another one in the testing data.
SamplesFollowPatientWitness ==
    /\ pc = "stack"
    /\ fm_done = Len(feature_masks)
    /\ \E i, j \in DOMAIN train_features :
          i # j /\ train_features[i][1] = train_features[j][1]
    /\ \E i, j \in DOMAIN test_features :
          i # j /\ test_features[i][1] = test_features[j][1]

\* C3 (as claimed): the rows of X_train and the rows of X_test come from
\* different patients.  Row i of x is the vector of patient_ids[i].
TabularSplitKeepsPatients ==
    "X_train" \in defined =>
        \A i \in 1..Len(X_train), j \in (Len(X_train) + 1)..Len(x) :
            patient_ids[i] # patient_ids[j]

\* Python's round() of the rational num/den (den > 0): round half to even.
Round(num, den) ==
    LET q == num \div den
        r == num % den
    IN  IF 2 * r < den THEN q
        ELSE IF 2 * r > den THEN q + 1
        ELSE IF q % 2 = 0 THEN q ELSE q + 1

\* C4 (as claimed): the training set has round(0.8 * |patients_list|)
\* patients and the testing set the others.
SplitSizeIsRounded ==
    SplitDone =>
        /\ Len(training_patients) = Round(8 * Len(patients_list), 10)
        /\ Len(testing_patients) = Len(patients_list) - Round(8 * Len(patients_list), 10)

\* C5: a run of the split cell in a kernel that holds a split already leaves
\* training_patients and testing_patients as they were, whatever ran in
\* between (the first run seeds the generator anew, and so does the cell that
\* seeds it with 1).
SplitRerunReproduces ==
    [][ (RerunSplitCell /\ SplitDone) =>
            /\ training_patients' = training_patients
            /\ testing_patients' = testing_patients ]_vars

\* The split cell has run again after the cell that seeds the generator
\* with 1.
SplitRerunReproducesWitness ==
    /\ pc = "done"
    /\ split_runs = 2
    /\ rng # SeedState(1)

\* The number of cases among the patients of s.
NumCases(s) == Cardinality({i \in DOMAIN s : controlcase[IntOf(s[i])] = 1})

\* |a/b - c/d| <= 5/100
WithinFivePoints(a, b, c, d) ==
    LET diff == IF a * d >= c * b THEN a * d - c * b ELSE c * b - a * d
    IN  100 * diff <= 5 * b * d

CommaAt(line) == CHOOSE c \in DOMAIN line : line[c] = "," /\ \A d \in 1..(c - 1) : line[d] # ","

ReadRow(line) ==
    <<SubSeq(line, 1, CommaAt(line) - 1),
      IntOf(SubSeq(line, CommaAt(line) + 1, Len(line)))>>

ReadRecords(file) == [i \in 1..(Len(file) - 1) |-> ReadRow(file[i + 1])]

\* The write cell has run to its end: every patient has a label.
WriteDone ==
    /\ pc \in {"load", "loading", "stack", "seed", "done"}
    /\ SplitDone
    /\ AllLabelled

\* C7: a record file written to its end is the header and one row per
\* patient of its partition, in order; read back, the rows are the patients
\* of the partition with their labels of the label table, none of them
\* twice and none of the other partition.
RecordFilesRoundTrip ==
    WriteDone =>
        /\ train_file[1] = Header
        /\ test_file[1] = Header
        /\ ReadRecords(train_file) =
              [i \in DOMAIN training_patients |->
                  <<training_patients[i], controlcase[IntOf(training_patients[i])]>>]
        /\ ReadRecords(test_file) =
              [i \in DOMAIN testing_patients |->
                  <<testing_patients[i], controlcase[IntOf(testing_patients[i])]>>]
        /\ \A i \in DOMAIN ReadRecords(train_file), j \in DOMAIN ReadRecords(test_file) :
              ReadRecords(train_file)[i][1] # ReadRecords(test_file)[j][1]

\* Both files hold two rows, of a case and of a control.
RecordFilesRoundTripWitness ==
    /\ WriteDone
    /\ Len(train_file) = 3
    /\ Len(test_file) = 3
    /\ ReadRecords(train_file)[1][2] # ReadRecords(train_file)[2][2]
    /\ ReadRecords(test_file)[1][2] # ReadRecords(test_file)[2][2]

\* The labels in the kernel are those of the label table: no sample has a
\* label that the table does not give its patient.
LabelsAreOfTable ==
    /\ \A i \in DOMAIN train_classes :
          /\ IntOf(train_features[i][1]) \in DOMAIN controlcase
          /\ train_classes[i] = controlcase[IntOf(train_features[i][1])]
    /\ \A i \in DOMAIN test_classes :
          /\ IntOf(test_features[i][1]) \in DOMAIN controlcase
          /\ test_classes[i] = controlcase[IntOf(test_features[i][1])]
    /\ \A i \in DOMAIN classes :
          /\ patient_ids[i] \in DOMAIN controlcase
          /\ classes[i] = controlcase[patient_ids[i]]

\* A table has a row without a missing value.
HasCompleteRow(df) ==
    \E r \in DOMAIN df.rows : \A c \in DOMAIN df.cols : df.rows[r][c] # NaN

\* Sheet j is aggregated, not skipped.
Kept(j) == HasCompleteRow(sheets[j].mean) /\ HasCompleteRow(sheets[j].std)

KeptUpTo(k) == {j \in 1..k : Kept(j)}

\* C8: an iteration of the loading loop, or of the aggregation loop on a
\* sheet that is not skipped, whose patient has no label raises KeyError and
\* ends the loop: no list gets a label for it, the loop is through with no
\* further directory, and no sample ever has a label that is not its
\* patient's in the label table.
MissingLabelAborts ==
    [][ /\ (LoadIter /\ IntOf(feature_masks[fm_done + 1][1]) \notin DOMAIN controlcase) =>
              /\ error' = "KeyError"
              /\ pc' # "loading"
              /\ UNCHANGED <<train_features, train_classes, test_features,
                             test_classes, fm_done>>
        /\ (AggregateIter /\ Kept(sheets_done + 1)
               /\ IntOf(sheets[sheets_done + 1].patient) \notin DOMAIN controlcase) =>
              /\ error' = "KeyError"
              /\ pc' # "aggregating"
              /\ UNCHANGED <<classes, sheets_done>>
        /\ LabelsAreOfTable' ]_vars

\* The loading loop has ended with KeyError at a directory after the first.
MissingLabelAbortsWitness ==
    /\ pc = "stack"
    /\ error = "KeyError"
    /\ fm_done >= 1
    /\ fm_done < Len(feature_masks)
    /\ IntOf(feature_masks[fm_done + 1][1]) \notin DOMAIN controlcase

\* The value of feature f in the first row of df that has no missing value.
ValueAt(df, f) ==
    LET r == CHOOSE r \in DOMAIN df.rows :
                /\ \A c \in DOMAIN df.cols : df.rows[r][c] # NaN
                /\ \A q \in 1..(r - 1) : \E c \in DOMAIN df.cols : df.rows[q][c] = NaN
        c == CHOOSE c \in DOMAIN df.cols : df.cols[c] = f
    IN  df.rows[r][c]

\* The sheet the i-th feature vector is made from: the i-th that is kept.
SheetOfVector(i) ==
    CHOOSE j \in DOMAIN sheets : Kept(j) /\ Cardinality(KeptUpTo(j)) = i

\* C9: feature vector i has 2n elements for the n names of feature_names;
\* element k is the mean table's value of feature_names[k], element n + k
\* the std table's, whatever the order of the tables' columns.
VectorIsMeanThenStd ==
    /\ Len(feature_vectors) <= Cardinality(KeptUpTo(Len(sheets)))
    /\ \A i \in DOMAIN feature_vectors :
          LET sheet == sheets[SheetOfVector(i)]
              n == Len(feature_names)
          IN  /\ Len(feature_vectors[i]) = 2 * n
              /\ \A k \in 1..n :
                    /\ feature_vectors[i][k] = ValueAt(sheet.mean, feature_names[k])
                    /\ feature_vectors[i][n + k] = ValueAt(sheet.std, feature_names[k])

\* Names a, b, c, a mean row {a: 1, b: 2, c: 3} and a std row
\* {a: 0.1, b: 0.2, c: 0.3} (in tenths), the columns of neither table in the
\* order of the names, give [1, 2, 3, 0.1, 0.2, 0.3].
VectorIsMeanThenStdWitness ==
    /\ feature_names = << <<"a">>, <<"b">>, <<"c">> >>
    /\ feature_vectors = << <<10, 20, 30, 1, 2, 3>> >>
    /\ sheets[1].mean.cols = << <<"c">>, <<"a">>, <<"b">> >>
    /\ sheets[1].std.cols = << <<"b">>, <<"c">>, <<"a">> >>

\* C10: a sheet whose mean table or std table has no row left after dropna
\* adds nothing to feature_vectors, classes and patient_ids, and the loop
\* goes on: the lists hold the sheets that are kept, in order, and unless a
\* label is missing the loop gets through every sheet.
SkippedSheetAddsNothing ==
    /\ Len(classes) = Cardinality(KeptUpTo(sheets_done))
    /\ Len(patient_ids) = Len(feature_vectors)
    /\ Len(feature_vectors) \in {Len(classes), Len(classes) + 1}
    /\ Len(feature_vectors) = Len(classes) + 1 =>
          /\ pc # "aggregating"
          /\ Kept(sheets_done + 1)
          /\ IntOf(sheets[sheets_done + 1].patient) \notin DOMAIN controlcase
    /\ \A i \in DOMAIN patient_ids :
          patient_ids[i] = IntOf(sheets[SheetOfVector(i)].patient)
    /\ (/\ pc \in {"combine", "table", "tsplit", "tdone"}
        /\ \A j \in DOMAIN sheets :
              Kept(j) => IntOf(sheets[j].patient) \in DOMAIN controlcase)
          => sheets_done = Len(sheets)

\* The loop is through with three sheets, the second of them skipped.
SkippedSheetAddsNothingWitness ==
    /\ pc = "combine"
    /\ sheets_done = 3
    /\ Len(sheets) = 3
    /\ ~Kept(2)
    /\ Len(feature_vectors) = 2

\* The discovery cell has run to its end.
DiscoveryDone == pc = "aggregate" /\ error = ""

\* The feature name a file of the reference directory gives (<<>>: none).
NameOfFile(filename) ==
    CatalogNames[CHOOSE k \in DOMAIN CatalogFiles : CatalogFiles[k] = filename]

FeatureOfFile(filename) ==
    << <<"a">>, <<"b">>, <<"B">>, <<>> >>[FileIndex(filename)]

\* The feature lists of the kernel leave out no file: a feature-name list
\* that the discovery cell completed has a name for every file of the
\* reference directory, and the dictionary of every sample in train_features
\* or test_features has the feature of every file of the sample's directory.
NoFileLeftOut ==
    /\ DiscoveryDone =>
          /\ Len(feature_names) = Len(feature_dirs[1])
          /\ \A i \in DOMAIN feature_dirs[1] :
                /\ NameOfFile(feature_dirs[1][i]) # <<>>
                /\ In(NameOfFile(feature_dirs[1][i]), feature_names)
    /\ \A sample \in Range(train_features) \cup Range(test_features) :
          \A i \in DOMAIN volumes[sample].files :
             /\ FeatureOfFile(volumes[sample].files[i].name) # <<>>
             /\ FeatureOfFile(volumes[sample].files[i].name) \in DOMAIN dicts[sample]

\* C12: an iteration of the discovery loop, or of the loading loop for a
\* labelled patient, that meets a .nii.gz file whose name does not match the
\* pattern raises AttributeError and ends the loop: the name list gets no
\* further name and is not sorted, the sample is appended to no list, and
\* no list or dictionary the kernel goes on with leaves a file out.
NamingErrorAborts ==
    [][ /\ (DiscoverIter /\ NameOfFile(feature_dirs[1][files_done + 1]) = <<>>) =>
              /\ error' = "AttributeError"
              /\ pc' # "discovering"
              /\ UNCHANGED <<feature_names, files_done>>
        /\ (/\ LoadIter
            /\ IntOf(feature_masks[fm_done + 1][1]) \in DOMAIN patient_id_to_case
            /\ \E i \in DOMAIN volumes[feature_masks[fm_done + 1]].files :
                  FeatureOfFile(volumes[feature_masks[fm_done + 1]].files[i].name) = <<>>) =>
              /\ error' = "AttributeError"
              /\ pc' # "loading"
              /\ UNCHANGED <<train_features, train_classes, test_features,
                             test_classes, dicts, fm_done>>
        /\ NoFileLeftOut' ]_vars

\* The loading loop has ended with AttributeError at a directory after the
\* first, the file before the one without a match loaded.
NamingErrorAbortsWitness ==
    /\ pc = "stack"
    /\ error = "AttributeError"
    /\ fm_done >= 1
    /\ DOMAIN patient_features = {<<"a">>}
    /\ Len(train_features) + Len(test_features) = fm_done

\* The stack cell has run to its end.
StackDone == pc = "cross" /\ error = "" /\ "train_data" \in defined

\* The masked map of feature `name' of a sample directory, from its files:
\* the volume of the file of that feature, non-finite values replaced, times
\* the mask.
MapOfFeature(sample, name) ==
    LET files == volumes[sample].files
        i == CHOOSE i \in DOMAIN files : FeatureOfFile(files[i].name) = name
    IN  [r \in DOMAIN files[i].data |-> [c \in DOMAIN files[i].data[r] |->
            Mul(NanToNum(files[i].data[r][c]), volumes[sample].mask[r][c])]]

\* Channel k of a sample's array holds the map of feature `name'.
HoldsFeature(channel, sample, name) ==
    /\ \E i \in DOMAIN volumes[sample].files :
          FeatureOfFile(volumes[sample].files[i].name) = name
    /\ channel = Broadcast(Crop(MapOfFeature(sample, name)))

\* C13: ordered_feature_names is the sorted keys of the first training
\* sample's dictionary, and in every sample of train_data and of test_data
\* channel k holds the map of that sample's feature ordered_feature_names[k],
\* whatever the order of the files in the sample's directory and whatever
\* other features it has.
ChannelOrderIsShared ==
    StackDone =>
        /\ Range(ordered_feature_names) = DOMAIN dicts[train_features[1]]
        /\ \A k \in 1..(Len(ordered_feature_names) - 1) :
              StrLess(ordered_feature_names[k], ordered_feature_names[k + 1])
        /\ Len(train_data) = Len(train_features)
        /\ Len(test_data) = Len(test_features)
        /\ \A k \in DOMAIN ordered_feature_names :
              /\ \A s \in DOMAIN train_data :
                    HoldsFeature(train_data[s][k], train_features[s],
                                 ordered_feature_names[k])
              /\ \A s \in DOMAIN test_data :
                    HoldsFeature(test_data[s][k], test_features[s],
                                 ordered_feature_names[k])

\* The arrays are filled from a test sample with a feature more than the
\* first training sample, and from a training sample whose files are listed
\* in another order.
ChannelOrderIsSharedWitness ==
    /\ StackDone
    /\ ordered_feature_names = << <<"a">>, <<"b">> >>
    /\ \E s \in DOMAIN test_features :
          DOMAIN dicts[test_features[s]] = {<<"B">>, <<"a">>, <<"b">>}
    /\ \E s \in DOMAIN train_features :
          volumes[train_features[s]].files[1].name = FileB

\* The value that row r, column c of the volume of file i of a sample
\* directory has in the sample's dictionary.
LoadedValue(sample, i, r, c) ==
    dicts[sample][FeatureOfFile(volumes[sample].files[i].name)][r][c]

\* The positions of the volumes of a sample directory.
Positions(sample) ==
    {p \in (DOMAIN volumes[sample].files) \X (DOMAIN volumes[sample].mask)
            \X (1..NumCols(volumes[sample].mask)) : TRUE}

\* C14 (as claimed): where a feature volume has a non-finite value, the
\* loaded map is 0: the value is 0 before the mask is applied.
NonFiniteBecomesZero ==
    \A sample \in DOMAIN dicts : \A p \in Positions(sample) :
        ~IsFinite(volumes[sample].files[p[1]].data[p[2]][p[3]]) =>
            LoadedValue(sample, p[1], p[2], p[3]) = Zero

\* C14 (amended): every value of a loaded map is finite and is the product
\* of the mask's value and of the volume's value after nan became 0, inf the
\* largest finite value and -inf the smallest.
NonFiniteBecomesFinite ==
    \A sample \in DOMAIN dicts : \A p \in Positions(sample) :
        LET raw == volumes[sample].files[p[1]].data[p[2]][p[3]]
            m == volumes[sample].mask[p[2]][p[3]]
            v == LoadedValue(sample, p[1], p[2], p[3])
        IN  /\ IsFinite(v)
            /\ IsNaN(raw) => v = Zero
            /\ raw = PosInf => v = Mul(<<FloatMax, 1>>, m)
            /\ raw = NegInf => v = Mul(<<0 - FloatMax, 1>>, m)
            /\ IsFinite(raw) => v = Mul(raw, m)

\* A loaded volume has nan and inf where the mask is 0, and inf and -inf
\* where it is 1.
NonFiniteBecomesFiniteWitness ==
    \E sample \in DOMAIN dicts :
        LET data == volumes[sample].files[1].data
            mask == volumes[sample].mask
        IN  /\ data[1][1] = FloatNaN /\ mask[1][1] = Zero
            /\ data[1][2] = PosInf /\ mask[1][2] = <<1, 1>>
            /\ data[2][1] = NegInf /\ mask[2][1] = <<1, 1>>
            /\ data[2][2] = PosInf /\ mask[2][2] = Zero
            /\ LoadedValue(sample, 1, 1, 2) = <<FloatMax, 1>>
            /\ LoadedValue(sample, 1, 2, 1) = <<0 - FloatMax, 1>>

\* The samples and the array of either partition.
SamplesOfData == [train |-> train_features, test |-> test_features]

TensorOf == [train |-> train_data, test |-> test_data]

\* C15 (as claimed): every channel of every sample is rows 1..CropRows and
\* columns 1..CropCols of the product of the full-size feature map and the
\* full-size mask.
ChannelIsTopLeftOfProduct ==
    StackDone =>
        \A part \in {"train", "test"} : \A s \in DOMAIN TensorOf[part] :
            \A k \in DOMAIN ordered_feature_names :
                LET product == MapOfFeature(SamplesOfData[part][s], ordered_feature_names[k])
                IN  \A r \in 1..CropRows, c \in 1..CropCols :
                       /\ r <= NumRows(product)
                       /\ c <= NumCols(product)
                       /\ TensorOf[part][s][k][r][c] = product[r][c]

\* C16 (as claimed): the stack cell runs to its end only if every masked
\* map it fills a channel from has at least CropRows rows and CropCols
\* columns.
SmallMapIsFatal ==
    StackDone =>
        \A sample \in Range(train_features) \cup Range(test_features) :
            \A k \in DOMAIN ordered_feature_names :
                /\ NumRows(dicts[sample][ordered_feature_names[k]]) >= CropRows
                /\ NumCols(dicts[sample][ordered_feature_names[k]]) >= CropCols

\* The largest magnitude at row r, column c of channel k over the samples
\* of `full' is m.
IsPositionMax(m, full, k, r, c) ==
    /\ \E s \in DOMAIN full : Abs(full[s][k][r][c]) = m
    /\ \A s \in DOMAIN full : Leq(Abs(full[s][k][r][c]), m)

\* The largest magnitude of channel k over all positions and all samples of
\* `full' is m.
IsChannelMax(m, full, k) ==
    /\ \E s \in DOMAIN full, r \in 1..CropRows, c \in 1..CropCols :
          Abs(full[s][k][r][c]) = m
    /\ \A s \in DOMAIN full, r \in 1..CropRows, c \in 1..CropCols :
          Leq(Abs(full[s][k][r][c]), m)

\* The cross-sample pass is being done on arrays that exist.
CrossStep == CrossPass /\ "train_data" \in defined

\* v = old / (m + epsilon), for finite values: v * (m + epsilon) = old.
IsQuotient(v, old, m) == Mul(v, Add(m, epsilon)) = old

IsMapMax(m, feature_map) ==
    /\ \E v \in ValuesOf(feature_map) : Abs(v) = m
    /\ \A v \in ValuesOf(feature_map) : Leq(Abs(v), m)

\* Every value of the 2-D array `new' is that of `old' over m + epsilon.
IsQuotientMap(new, old, m) ==
    \A r \in 1..CropRows, c \in 1..CropCols : IsQuotient(new[r][c], old[r][c], m)

\* The samples of both arrays, those of train_data first.
BothData == train_data \o test_data

\* The normalization cell has run to its end.
NormalizeDone ==
    /\ pc = "seed"
    /\ "max_image" \in defined
    /\ within_done = Len(BothData) * NumChannels

\* Channel k of sample s as the cross-sample pass left it is feature_map.
IsCrossPassed(feature_map, s, k) ==
    \A r \in 1..CropRows, c \in 1..CropCols :
        IsQuotient(feature_map[r][c], full_data[s][k][r][c], max_image[k][r][c])

\* Channel k of sample s as the cross-sample pass left it.
CrossPassed(s, k) ==
    [r \in 1..CropRows |-> [c \in 1..CropCols |->
        Div(full_data[s][k][r][c], Add(max_image[k][r][c], epsilon))]]

\* When the cell has run to its end, every channel of every sample is what
\* the cross-sample pass left, over its largest magnitude plus epsilon.
WithinPassDone ==
    NormalizeDone =>
        \A s \in DOMAIN BothData, k \in 1..NumChannels :
            \E m \in {Abs(v) : v \in ValuesOf(CrossPassed(s, k))} :
                /\ IsMapMax(m, CrossPassed(s, k))
                /\ IsQuotientMap(BothData[s][k], CrossPassed(s, k), m)

\* C18: an iteration of the within-sample loop divides the values of one
\* channel of one sample by the largest magnitude of that channel in that
\* sample plus epsilon and changes no other channel and no other sample;
\* when the loop ends, every channel of every sample of train_data and
\* test_data has been divided so, once.
WithinPassIsPerChannel ==
    /\ [][ WithinIter =>
              \E s \in DOMAIN BothData, k \in 1..NumChannels :
                 /\ \E m \in {Abs(v) : v \in ValuesOf(BothData[s][k])} :
                       /\ IsMapMax(m, BothData[s][k])
                       /\ IsQuotientMap(BothData'[s][k], BothData[s][k], m)
                 /\ \A o \in DOMAIN BothData, j \in 1..NumChannels :
                       (o # s \/ j # k) => BothData'[o][j] = BothData[o][j]
                 /\ Len(train_data') = Len(train_data)
                 /\ Len(test_data') = Len(test_data) ]_vars
    /\ []WithinPassDone

\* The loop is through with the training samples and with the first channel
\* of a testing sample, whose values it has changed; the second channel is
\* as the cross-sample pass left it.
WithinPassIsPerChannelWitness ==
    /\ pc = "within"
    /\ Len(test_data) > 0
    /\ within_done = Len(train_data) * NumChannels + 1
    /\ ~IsCrossPassed(test_data[1][1], Len(train_data) + 1, 1)
    /\ IsCrossPassed(test_data[1][2], Len(train_data) + 1, 2)
    /\ \E v \in ValuesOf(test_data[1][2]) : v # Zero

\* C19: the cross-sample pass runs once, on arrays that no pass has divided
\* yet, and its maxima are those of that data; every iteration of the
\* within-sample loop, for whichever sample, finds its channel as the
\* cross-sample pass left it and takes its maximum from that.
CrossPassPrecedesWithinPass ==
    [][ /\ CrossStep =>
              /\ "max_image" \notin defined
              /\ within_done = 0
              /\ \A k \in 1..NumChannels, r \in 1..CropRows, c \in 1..CropCols :
                    IsPositionMax(max_image'[k][r][c], BothData, k, r, c)
        /\ WithinIter =>
              \E s \in DOMAIN BothData, k \in 1..NumChannels :
                 /\ BothData'[s][k] # BothData[s][k] \/ max_val' = Zero
                 /\ \A o \in DOMAIN BothData, j \in 1..NumChannels :
                       (o # s \/ j # k) => BothData'[o][j] = BothData[o][j]
                 /\ IsCrossPassed(BothData[s][k], s, k)
                 /\ IsMapMax(max_val', BothData[s][k]) ]_vars

\* The within-sample loop is at the last channel of the last sample, a
\* testing sample: the channel is still as the cross-sample pass left it,
\* every training sample has been divided again.
CrossPassPrecedesWithinPassWitness ==
    /\ pc = "within"
    /\ Len(test_data) > 0
    /\ within_done = Len(BothData) * NumChannels - 1
    /\ IsCrossPassed(test_data[Len(test_data)][NumChannels], Len(BothData), NumChannels)
    /\ \E v \in ValuesOf(test_data[Len(test_data)][NumChannels]) : v # Zero
    /\ \A s \in DOMAIN train_data : ~IsCrossPassed(train_data[s][1], s, 1)

\* C20: after both passes no value of any channel of any sample of
\* train_data and test_data has a magnitude above 1, and a channel that was
\* 0 everywhere in its sample is 0 everywhere.
NormalizedMaxAtMostOne ==
    NormalizeDone =>
        \A s \in DOMAIN BothData, k \in 1..NumChannels :
            /\ \A v \in ValuesOf(BothData[s][k]) : Leq(Abs(v), <<1, 1>>)
            /\ ValuesOf(full_data[s][k]) = {Zero} => ValuesOf(BothData[s][k]) = {Zero}

\* Both passes have run on a training and a testing sample; a channel is 0
\* everywhere, another one has a value of a magnitude above 9/10.
NormalizedMaxAtMostOneWitness ==
    /\ NormalizeDone
    /\ Len(test_data) > 0
    /\ \E s \in DOMAIN BothData : ValuesOf(BothData[s][1]) = {Zero}
    /\ \E s \in DOMAIN BothData : \E v \in ValuesOf(BothData[s][2]) :
          Leq(<<9, 10>>, Abs(v)) /\ v[1] < 0

\* The imaging notebook has run to its end: the record files are written,
\* the samples loaded, stacked and normalized, the training is seeded.
NotebookDone ==
    /\ pc = "done"
    /\ SplitDone
    /\ Len(test_file) > 1
    /\ "max_image" \in defined
    /\ within_done = Len(BothData) * NumChannels

\* C21: once training_patients and testing_patients are bound, every step
\* other than a run of the split cell (verifying, writing the record files,
\* loading, stacking, normalizing, seeding the training) leaves both as they
\* are.
PartitionIsFrozen ==
    [][ (SplitDone /\ ~(SplitCell \/ RerunSplitCell)) =>
            /\ training_patients' = training_patients
            /\ testing_patients' = testing_patients ]_vars

\* Every later cell has run over a partition with a testing patient, the
\* split cell once only.
PartitionIsFrozenWitness ==
    /\ NotebookDone
    /\ split_runs = 1
    /\ within_done > 0
    /\ training_patients # <<>>
    /\ testing_patients # <<>>

\* The table cell has run to its end.
TableDone == "data_df" \in defined

\* C22: the table of summary statistics has one row per feature vector, row
\* i with the patient id of the sheet vector i is made from as its index;
\* its columns are mean_<f> for the names f of feature_names in order, then
\* std_<f> likewise; the cell of row i in column mean_<f> (std_<f>) is the
\* value of f in the mean (std) table of that sheet.  The file has the
\* header and the rows of the table.
TableIsPerSampleMeanThenStd ==
    TableDone =>
        LET n == Len(feature_names)
        IN  /\ Len(data_df.rows) = Len(feature_vectors)
            /\ Len(data_df.index) = Len(data_df.rows)
            /\ Len(data_df.cols) = 2 * n
            /\ \A k \in 1..n :
                  /\ data_df.cols[k] = MeanTag \o feature_names[k]
                  /\ data_df.cols[n + k] = StdTag \o feature_names[k]
            /\ \A i \in DOMAIN data_df.rows :
                  LET sheet == sheets[SheetOfVector(i)]
                  IN  /\ data_df.index[i] = IntOf(sheet.patient)
                      /\ Len(data_df.rows[i]) = 2 * n
                      /\ \A k \in 1..n :
                            /\ data_df.rows[i][k] = ValueAt(sheet.mean, feature_names[k])
                            /\ data_df.rows[i][n + k] = ValueAt(sheet.std, feature_names[k])
            /\ Len(stats_file) = Len(data_df.rows) + 1
            /\ stats_file[1] = <<"patient_id">> \o data_df.cols
            /\ \A i \in DOMAIN data_df.rows :
                  /\ IntOf(stats_file[i + 1][1]) = data_df.index[i]
                  /\ Tail(stats_file[i + 1]) = data_df.rows[i]

\* A table of two rows of one patient and a row of another one, a sheet
\* between them skipped.
TableIsPerSampleMeanThenStdWitness ==
    /\ TableDone
    /\ Len(data_df.rows) = 3
    /\ data_df.index[1] = data_df.index[2]
    /\ data_df.index[2] # data_df.index[3]
    /\ ~Kept(3)

\* C23: a run of the split cell over the same patients_list with any other
\* assignment of labels to the patients gives the training_patients and
\* testing_patients this kernel holds.
SplitIgnoresLabels ==
    SplitDone =>
        \A table \in [ {IntOf(p) : p \in Range(patients_list)} -> Classes ] :
            LET other == SplitOutcome(patients_list, table, rng)
            IN  /\ other.error = ""
                /\ other.training = training_patients
                /\ other.testing = testing_patients

\* A split of two cases and a control that has a case and the control in
\* the training data.
SplitIgnoresLabelsWitness ==
    /\ SplitDone
    /\ Len(patients_list) = 3
    /\ NumCases(patients_list) = 2
    /\ NumCases(training_patients) = 1
    /\ NumCases(testing_patients) = 1

\* C27 (as claimed): a run of the split cell over the same directories in
\* any other listing order gives the same set of training patients and the
\* same set of testing patients.
SplitIgnoresListingOrder ==
    SplitDone =>
        \A order \in ListingOrders(Len(patients_list)) :
            /\ Range(SplitOutcome(order, patient_id_to_case, rng).training)
                  = Range(training_patients)
            /\ Range(SplitOutcome(order, patient_id_to_case, rng).testing)
                  = Range(testing_patients)

\* C24 (as claimed): whatever the number of names of ordered_feature_names,
\* the stack cell gives every name a channel (no name is beyond the last
\* channel), and every sample of train_data and test_data has as many
\* channels as there are names.
ChannelPerFeatureName ==
    (pc = "cross" /\ "train_data" \in defined) =>
        /\ error # "IndexError"
        /\ error = "" =>
              /\ \A s \in DOMAIN train_data :
                    Len(train_data[s]) = Len(ordered_feature_names)
              /\ \A s \in DOMAIN test_data :
                    Len(test_data[s]) = Len(ordered_feature_names)

IsPositive(v) == IsFinite(v) /\ v[1] > 0

\* C25: every divisor of the cross-sample pass (a value of max_image plus
\* epsilon) and of an iteration of the within-sample loop (max_val plus
\* epsilon) is finite and above 0; the step leaves no value that is not
\* finite, and a channel of a sample that is 0 everywhere is 0 everywhere
\* afterwards.
DivisorsArePositive ==
    [][ (CrossStep \/ WithinIter) =>
            /\ CrossStep =>
                  \A k \in 1..NumChannels, r \in 1..CropRows, c \in 1..CropCols :
                      IsPositive(Add(max_image'[k][r][c], epsilon))
            /\ WithinIter => IsPositive(Add(max_val', epsilon))
            /\ \A s \in DOMAIN BothData, k \in 1..NumChannels :
                  /\ \A v \in ValuesOf(BothData'[s][k]) : IsFinite(v)
                  /\ ValuesOf(BothData[s][k]) = {Zero} =>
                        ValuesOf(BothData'[s][k]) = {Zero} ]_vars

\* Both passes have run over samples of which every one has 0 everywhere
\* in the first channel, and one of which has 0 everywhere in no channel
\* but that.
DivisorsArePositiveWitness ==
    /\ NormalizeDone
    /\ Len(BothData) >= 2
    /\ \A r \in 1..CropRows, c \in 1..CropCols : max_image[1][r][c] = Zero
    /\ max_val # Zero
    /\ \A s \in DOMAIN BothData : ValuesOf(BothData[s][1]) = {Zero}

\* The sample directories of both lists, those of train_features first.
BothFeatures == train_features \o test_features

\* Sample s of the arrays is made from channel maps of the s-th sample
\* directory: as stacked, as the cross-sample pass left them, or as the
\* within-sample pass left them.
TensorIsOfSample(s) ==
    \A k \in DOMAIN ordered_feature_names :
        IF "max_image" \notin defined
        THEN HoldsFeature(BothData[s][k], BothFeatures[s], ordered_feature_names[k])
        ELSE /\ HoldsFeature(full_data[s][k], BothFeatures[s], ordered_feature_names[k])
             /\ \/ IsCrossPassed(BothData[s][k], s, k)
                \/ \E m \in {Abs(v) : v \in ValuesOf(CrossPassed(s, k))} :
                      /\ IsMapMax(m, CrossPassed(s, k))
                      /\ IsQuotientMap(BothData[s][k], CrossPassed(s, k), m)

\* C26: the lists of features and of labels have the same length in either
\* partition, label i is the label the table has for the patient of sample
\* directory i, and once the arrays are stacked, train_data[i] and
\* test_data[i] are made from sample directory i of their list, before and
\* after either normalization pass.
LabelsFollowSamples ==
    /\ Len(train_features) = Len(train_classes)
    /\ Len(test_features) = Len(test_classes)
    /\ \A i \in DOMAIN train_features :
          /\ IntOf(train_features[i][1]) \in DOMAIN controlcase
          /\ train_classes[i] = controlcase[IntOf(train_features[i][1])]
    /\ \A i \in DOMAIN test_features :
          /\ IntOf(test_features[i][1]) \in DOMAIN controlcase
          /\ test_classes[i] = controlcase[IntOf(test_features[i][1])]
    /\ "train_data" \in defined =>
          /\ Len(train_data) = Len(train_classes)
          /\ Len(test_data) = Len(test_classes)
          /\ \A s \in DOMAIN BothData : TensorIsOfSample(s)

\* The arrays are normalized; the training data has the two images of a
\* case and an image of a control, the testing data has a sample.
LabelsFollowSamplesWitness ==
    /\ NormalizeDone
    /\ \E i, j \in DOMAIN train_features :
          /\ i # j
          /\ train_features[i][1] = train_features[j][1]
          /\ train_classes[i] = 1
    /\ \E i \in DOMAIN train_classes : train_classes[i] = 0
    /\ Len(test_data) > 0

\* The number of samples in the two lists.
NumLoaded == Len(train_features) + Len(test_features)

\* The number of feature_masks directories of the data directory.
NumSampleDirs == Len(SampleDirs(data_dirs, n_images))

\* C28 (as claimed): a loading loop that runs in a kernel that holds a split
\* never raises ValueError, and when it ends the two lists together have as
\* many samples as there are feature_masks directories.
LoadsEveryDirectory ==
    [][ (LoadIter /\ SplitDone /\ pc' = "stack") =>
            /\ error' # "ValueError"
            /\ NumLoaded' = NumSampleDirs ]_vars

\* C28 (amended): in a kernel that holds a split, the patient of every
\* sample directory is in exactly one of training_patients and
\* testing_patients, no iteration of the loading loop raises ValueError or
\* fails the assertion, and a loop that ends without an exception has
\* loaded as many samples as there are feature_masks directories.
PatientIsAlwaysFound ==
    [][ (LoadIter /\ SplitDone) =>
            /\ Occurrences(feature_masks[fm_done + 1][1], training_patients)
                  + Occurrences(feature_masks[fm_done + 1][1], testing_patients) = 1
            /\ error' \notin {"ValueError", "AssertionError"}
            /\ (pc' = "stack" /\ error' = "") => NumLoaded' = NumSampleDirs ]_vars

\* The loop has ended without an exception over five directories or more,
\* with samples in both lists.
PatientIsAlwaysFoundWitness ==
    /\ pc = "stack"
    /\ SplitDone
    /\ error = ""
    /\ fm_done = Len(feature_masks)
    /\ NumLoaded = NumSampleDirs
    /\ NumSampleDirs >= 5
    /\ train_features # <<>>
    /\ test_features # <<>>

\* The cut-down cell ran without an exception.
SelectionDone == pc = "selected" /\ error = ""

\* The feature of column k (from 1) of the data: the one whose mean or std
\* the table of summary statistics has in that column.
FeatureOfColumn(k) ==
    CHOOSE f \in Range(feature_names) :
        ColNames(feature_names)[k] \in {MeanTag \o f, StdTag \o f}

\* C30: the name reported for the coefficient of a column is the name of
\* the feature of that column, the names are as many as the columns the
\* cut-down cell keeps in X_train and in X_test, and the columns kept are
\* the same in both: the columns of x whose coefficient is selected.
SelectedNamesAreOfColumns ==
    SelectionDone =>
        LET n == Len(feature_names)
            kept == SelectedPositions(elnet_coef)
            n_train == NumTrainOf(Len(x))
        IN  /\ Len(elnet_coef) = 2 * n
            /\ Len(selected_coefs) = Len(kept)
            /\ \A j \in DOMAIN kept :
                  /\ selected_coefs[j] = FeatureOfColumn(kept[j] + 1)
                  /\ selected_coefs[j] = IF kept[j] < n THEN feature_names[kept[j] + 1]
                                         ELSE feature_names[kept[j] - n + 1]
            /\ \A r \in DOMAIN X_train :
                  /\ Len(X_train[r]) = Len(selected_coefs)
                  /\ \A j \in DOMAIN kept : X_train[r][j] = x[r][kept[j] + 1]
            /\ \A r \in DOMAIN X_test :
                  /\ Len(X_test[r]) = Len(selected_coefs)
                  /\ \A j \in DOMAIN kept : X_test[r][j] = x[n_train + r][kept[j] + 1]

\* A fit that selects the mean of the first feature and the std of the
\* first and of the last, and leaves out a coefficient of exactly 1e-9.
SelectedNamesAreOfColumnsWitness ==
    /\ SelectionDone
    /\ Len(x) = 3
    /\ elnet_coef = <<11, 0, 10, -11, 0, 11>>
    /\ selected_coefs = <<FeatureNames[1], FeatureNames[1], FeatureNames[3]>>
    /\ Len(X_test[1]) = 3

\* The directories of image directory i that hold a feature directory.
WithFeature(t, i) ==
    {j \in DOMAIN t[i].children : "feature" \in t[i].children[j].files}

\* Directory j of image directory i of the tree `before' is named
\* feature_masks in the tree `after', in the same image directory, and
\* holds what it held.
IsRenamedIn(before, after, i, j) ==
    \E k \in DOMAIN after[i].children :
        /\ after[i].children[k].name = FeatureMasks
        /\ after[i].children[k].files = before[i].children[j].files
        /\ after[i].children[k].holds = before[i].children[j].holds

\* No image directory holds two directories with a feature directory, or
\* one of them next to another directory named feature_masks.
OnePerImage(t) ==
    \A i \in DOMAIN t :
        /\ Cardinality(WithFeature(t, i)) <= 1
        /\ \A j \in WithFeature(t, i) : \A k \in DOMAIN t[i].children :
              t[i].children[k].name = FeatureMasks => k = j

\* C29 (as claimed): a run of the cell leaves every directory that held a
\* feature directory named feature_masks, in its image directory and with
\* what it held, and the second run changes nothing and raises nothing.
RenamingIsIdempotent ==
    [][ RenameCell =>
            /\ Len(tree') = Len(tree)
            /\ \A i \in DOMAIN tree : \A j \in WithFeature(tree, i) :
                  IsRenamedIn(tree, tree', i, j)
            /\ pc = "rerename" => (tree' = tree /\ error' = "") ]_vars

\* C29 (amended): the same, of a tree whose image directories hold one
\* directory with a feature directory at most and no other directory named
\* feature_masks; every other directory is left as it was, and the tree
\* keeps that form.
RenamingIsIdempotentOnePerImage ==
    [][ (RenameCell /\ OnePerImage(tree)) =>
            /\ Len(tree') = Len(tree)
            /\ error' = ""
            /\ OnePerImage(tree')
            /\ \A i \in DOMAIN tree :
                  /\ Len(tree'[i].children) = Len(tree[i].children)
                  /\ \A j \in DOMAIN tree[i].children :
                        IF j \in WithFeature(tree, i)
                        THEN IsRenamedIn(tree, tree', i, j)
                        ELSE tree'[i].children[j] = tree[i].children[j]
            /\ pc = "rerename" => tree' = tree ]_vars

\* The cell ran twice over two image directories, one with the long-named
\* directory of an image next to a directory without features, one that
\* was renamed before: both hold feature_masks with the features.
RenamingIsIdempotentOnePerImageWitness ==
    /\ pc = "renamed"
    /\ error = ""
    /\ Len(tree) = 2
    /\ tree[1].children = << Child("DPm2", {"mask"}, <<1, "DPm2">>),
                             Child(FeatureMasks, {"feature", "mask"}, <<1, "DPm1">>) >>
    /\ tree[2].children = << Child(FeatureMasks, {"feature", "mask"}, <<2, FeatureMasks>>) >>
====
